---------------------------- MODULE Spec2Model ----------------------------
(***************************************************************************)
(* A model of clon (spirius/clon): the stack manager (pkg/clon), the       *)
(* CloudFormation controllers (pkg/cfn), the closer (pkg/closer), the S3   *)
(* file writer (internal/pkg/s3file) and the commands (cmd/clon/cmd).      *)
(*                                                                         *)
(* The module holds several specifications over one set of variables.     *)
(* Each specification drives one part of the program and leaves the       *)
(* variables of the other parts at their initial value:                    *)
(*   SpecNewPlan  newPlan (pkg/clon/plan.go)                               *)
(*   SpecExecute  calls of StackManager.Execute                            *)
(*   SpecCloser   the closer package, used by one goroutine                *)
(*   SpecCloserPar  the closer package, used by two goroutines at once     *)
(*   SpecGraph    the `stack` template helper up to addChild               *)
(*   SpecDeploy   one run of the deploy or of the init command             *)
(*   SpecWait     one Wait loop of pkg/cfn; SpecWaitFair with fairness     *)
(*   SpecNested   the nested stack trackers of one stack                   *)
(*   SpecNestedPar  the same, step by step, with the event streams of the  *)
(*                stack and of its nested stacks running at once          *)
(*   SpecPlans    calls of StackManager.Plan                               *)
(*   SpecGetPlan  StackManager.Plan and then GetPlan of the plan           *)
(*   SpecPlanCmd  the plan command up to the exit code                     *)
(*   SpecDestroy  one call of StackManager.Destroy                         *)
(*   SpecWrite    calls of s3file.Write on one bucket                      *)
(*   SpecConfirm  the confirmation prompt of the deploy command            *)
(*   SpecTrack    trackUpdates: the stack poller, the event streams and    *)
(*                the caller waiting on the closer; SpecTrackFair with     *)
(*                fairness                                                 *)
(***************************************************************************)
EXTENDS Integers, Sequences, FiniteSets, TLC

VARIABLES
    \* ---- newPlan: the arguments of one call and what it returned
    npInput,        \* [cs, stack, ignoreNestedUpdates]
    npPlan          \* NoPlan, or the result of newPlan, of Plan and GetPlan, of a command

VARIABLES
    \* ---- the stack manager: one run of the program
    flags,          \* configFlags of the command line
    tpl,            \* per stack, the inputs that call the helper, once read
    updated,        \* stack.updated of every runtime node
    planned,        \* stack.planned
    hasChange,      \* stack.hasChange
    children,       \* stack.children: the stacks that reference the node
    stackStatus,    \* stack.stack.Data().Status of every node, as words
    bucket,         \* StackManager.bucket
    nextPlan,       \* the number of the next change set the provider creates
    callStack,      \* the calls in progress, innermost last
    ret,            \* what the call that returned last returned
    executed,       \* history: the plans ExecuteChangeSet was issued for
    confirmed,      \* history: the plans confirmation ended for, and the answer
    helperDone      \* history: the last helper call that returned a snapshot

VARIABLES
    \* ---- the closer package
    clMade,         \* how many closers New() has made
    clClosed,       \* Closer.closed, and with it the closing of Closer.ch
    clErr,          \* Closer.err
    clChildren,     \* Closer.children
    clLock,         \* the goroutine holding Closer.lock
    clOnce,         \* Closer.once: its mutex holder and its done flag
    clStack,        \* per goroutine, the calls in progress, innermost last
    clCall,         \* history: the last call of goroutine main as it was issued
    clRet           \* per goroutine, what its last Wait returned

VARIABLES
    \* ---- the child graph under any sequence of helper calls
    grChildren,     \* stack.children of every node: who references it
    grLast          \* history: the last helper call and what it returned

VARIABLES
    \* ---- one Wait loop of pkg/cfn
    wKind,          \* which controller runs the loop
    wConfig,        \* the config of Wait: CloseOnEnd, CloseOnError, the callback
    wCloser,        \* config.Closer: closed, and the error it keeps
    wPc,            \* where the goroutine of Wait is
    wLoop,          \* the variables of update and of the callback's closure
    wRemote,        \* the provider: how many events, or changes, there are
    wLog,           \* history: the calls of the callback and what they returned
    wEmits,         \* the statuses trackUpdates has emitted
    wRet,           \* what update returned
    wHist           \* history: turns started, the Close that Wait made

VARIABLES
    \* ---- the nested stack trackers of one stack
    ntMap,          \* stack.nestedStackTracking
    ntParent,       \* the closer the trackers are children of
    ntLast,         \* history: the last event given to verifyNestedStackTracking
    ntGone,         \* history: the trackers removed from the map
    ntLock,         \* stack.nestedStackLock: the stream that holds it
    ntProc,         \* per stream, where its callback is and what it has read
    ntChildOf,      \* per tracker, the stream whose closer its closer is a child of
    ntAdds,         \* history: how many trackers were stored, per nested stack
    ntStreams       \* history: how many streams were started, per nested stack

npVars == <<npInput, npPlan>>
grVars == <<grChildren, grLast>>
smVars == <<flags, tpl, updated, planned, hasChange, children, stackStatus, bucket,
           nextPlan, callStack, ret, executed, confirmed, helperDone>>
clVars == <<clMade, clClosed, clErr, clChildren, clLock, clOnce, clStack, clCall, clRet>>
wtVars == <<wKind, wConfig, wCloser, wPc, wLoop, wRemote, wLog, wEmits, wRet, wHist>>
VARIABLES
    \* ---- s3file.Write on one bucket
    s3Objects,      \* the provider: per key, the object HeadObject reports
    s3NextVersion,  \* the provider: the number of the next version id
    s3Log           \* history: the calls of Write, what they saw and returned

s3Vars == <<s3Objects, s3NextVersion, s3Log>>

VARIABLES
    \* ---- one trackUpdates: the goroutines of its event streams, and its caller
    tkEnded,        \* the event streams whose goroutine has returned
    tkFailed,       \* history: the event streams that ended with a read error
    tkRet           \* what cl.Wait() returned to stack.execute or stack.destroy

tkVars == <<tkEnded, tkFailed, tkRet>>
ntVars == <<ntMap, ntParent, ntLast, ntGone, ntLock, ntProc, ntChildOf, ntAdds, ntStreams>>

vars == <<npInput, npPlan,
          flags, tpl, updated, planned, hasChange, children, stackStatus, bucket,
          nextPlan, callStack, ret, executed, confirmed, helperDone,
          clMade, clClosed, clErr, clChildren, clLock, clOnce, clStack, clCall, clRet,
          grChildren, grLast,
          wKind, wConfig, wCloser, wPc, wLoop, wRemote, wLog, wEmits, wRet, wHist,
          ntMap, ntParent, ntLast, ntGone, ntLock, ntProc, ntChildOf, ntAdds, ntStreams,
          s3Objects, s3NextVersion, s3Log,
          tkEnded, tkFailed, tkRet>>

\* What the actions of one part leave alone.
notNp == <<smVars, clVars, grVars, wtVars, ntVars, s3Vars, tkVars>>
notSm == <<npVars, clVars, grVars, wtVars, ntVars, s3Vars, tkVars>>
notCl == <<npVars, smVars, grVars, wtVars, ntVars, s3Vars, tkVars>>
notGr == <<npVars, smVars, clVars, wtVars, ntVars, s3Vars, tkVars>>
notWt == <<npVars, smVars, clVars, grVars, ntVars, s3Vars, tkVars>>
notNt == <<npVars, smVars, clVars, grVars, wtVars, s3Vars, tkVars>>
notS3 == <<npVars, smVars, clVars, grVars, wtVars, ntVars, tkVars>>
notTk == <<npVars, smVars, clVars, grVars, s3Vars>>

\* No trackUpdates runs.
TkIdle ==
    /\ tkEnded = {}
    /\ tkFailed = {}
    /\ tkRet = "none"

-----------------------------------------------------------------------------
(* Strings the code takes apart.  A status such as UPDATE_ROLLBACK_COMPLETE *)
(* is the sequence of its "_"-separated words, so that the suffix and      *)
(* substring tests of the code are computed, not assumed.                  *)

\* strings.HasSuffix(status, "_" + w1 + "_" + ... + "_" + wn): the last words
\* are ws and a word (and its "_") stands before them.
HasSuffixWords(status, ws) ==
    /\ Len(status) > Len(ws)
    /\ SubSeq(status, Len(status) - Len(ws) + 1, Len(status)) = ws

\* strings.Contains(status, "_" + w + "_"): w is a word of status that is
\* neither the first nor the last.
ContainsInnerWord(status, w) ==
    \E i \in 2..(Len(status) - 1) : status[i] = w

-----------------------------------------------------------------------------
(* newPlan                                                                 *)

\* The detail of a resource change that an automatic nested stack update has.
NestedDetail ==
    [ChangeSource |-> "Automatic", Evaluation |-> "Dynamic",
     Attribute |-> "Properties", RequiresRecreation |-> "Never"]

\* DiffString.IsEqual
IsEqual(d) == d.old = d.new

\* newDiffStringMap: a key missing on one side reads as the empty string there.
newDiffStringMap(src, dst) ==
    [k \in (DOMAIN src) \cup (DOMAIN dst) |->
        [old |-> IF k \in DOMAIN src THEN src[k] ELSE "",
         new |-> IF k \in DOMAIN dst THEN dst[k] ELSE ""]]

\* DiffStringMap.HasChange
DiffHasChange(d) == \E k \in DOMAIN d : ~IsEqual(d[k])

\* arn.Parse: "arn:" and five more ":"-separated sections; the sixth is the
\* resource.  An identifier is the sequence of its ":"-separated sections and
\* the resource the sequence of its "/"-separated parts.
ArnParses(id) == Len(id) = 6 /\ id[1] = "arn"

\* strings.TrimPrefix(resource, "changeSet/")
TrimChangeSetPrefix(res) ==
    IF Len(res) >= 2 /\ res[1] = "changeSet" THEN Tail(res) ELSE res

\* The filter with the test of RequiresRecreation left out.
IsNestedUpdate_NoRecreationTest(c) ==
    /\ Len(c.Details) = 1
    /\ c.Details[1].ChangeSource = "Automatic"
    /\ c.Details[1].Evaluation = "Dynamic"
    /\ c.Details[1].Attribute = "Properties"

\* The nested-stack filter of newPlan: the loop over the changes stops at the
\* first change that is not a single automatic nested update.
IsNestedUpdate(c) ==
    /\ Len(c.Details) = 1
    /\ c.Details[1].ChangeSource = "Automatic"
    /\ c.Details[1].Evaluation = "Dynamic"
    /\ c.Details[1].Attribute = "Properties"
    /\ c.Details[1].RequiresRecreation = "Never"

NoPlan == [err |-> "none"]
NoInput == [cs |-> "none"]

\* No call of newPlan is under way.
NpIdle == npInput = NoInput /\ npPlan = NoPlan

\* newPlan(cs, stack, ignoreNestedUpdates): HasChange is set only inside the
\* filter, and stays false when ignoreNestedUpdates is false.
newPlan(cs, stack, ignoreNestedUpdates) ==
    IF ~ArnParses(cs.ID)
    THEN [err |-> "cannot parse change set id"]
    ELSE [err |-> "nil",
          ID |-> TrimChangeSetPrefix(cs.ID[6]),
          Changes |-> cs.Changes,
          Parameters |-> newDiffStringMap(stack.Parameters, cs.Parameters),
          HasChange |-> /\ ignoreNestedUpdates
                        /\ \E i \in 1..Len(cs.Changes) : ~IsNestedUpdate(cs.Changes[i])]

\* newPlan(cs, stack), the version without the filter.
newPlanTwoArg(cs, stack) ==
    IF ~ArnParses(cs.ID)
    THEN [err |-> "cannot parse change set id"]
    ELSE [err |-> "nil",
          ID |-> TrimChangeSetPrefix(cs.ID[6]),
          Changes |-> cs.Changes,
          Parameters |-> newDiffStringMap(stack.Parameters, cs.Parameters),
          HasChange |-> \/ DiffHasChange(newDiffStringMap(stack.Parameters, cs.Parameters))
                        \/ Len(cs.Changes) > 0]

-----------------------------------------------------------------------------
(* The stack manager.  Stacks are numbered: 0 is the bootstrap stack (the  *)
(* root), 1..MaxStacks are the stacks of the configuration, and            *)
(* UnknownStack is a name no configured stack has.                         *)

MaxStacks == 2

RootStack == 0
Stacks == 0..MaxStacks
UnknownStack == MaxStacks + 1
StackNames == Stacks \cup {UnknownStack}

-----------------------------------------------------------------------------
(* The closer package.  Closers are numbered in the order New() made them; *)
(* a goroutine is a stack of calls, and a call that needs a mutex another  *)
(* call holds (its own goroutine's included: sync.Mutex and sync.Once are  *)
(* not re-entrant) cannot step.                                            *)

MaxClosers == 3

Closers == 1..MaxClosers
Goroutines == {"main", "other", "third"}
Errors == {"nil", "e1", "e2"}
NoGoroutine == "none"
NoCall == [fn |-> "none"]

Made == 1..clMade

\* The history is kept for the calls of goroutine main.
Record(g, r) == IF g = "main" THEN [clCall EXCEPT ![g] = r] ELSE clCall

\* sync.Once: once.Do lets a call in until the function has returned once.
OnceDone_Never(c) == FALSE

OnceDone(c) == clOnce[c].done

\* AddChild's test of c.closed, read under c.lock.
ParentClosed_Never(c) == FALSE

ParentClosed(c) == clClosed[c]

\* The children propagate ranges over.
PropagateTargets_None(c) == {}

PropagateTargets(c) == clChildren[c]

\* The closers reached from the set S in at most n steps along Closer.children.
RECURSIVE Reach(_, _, _)
Reach(kids, S, n) ==
    IF n = 0 THEN S ELSE Reach(kids, S \cup UNION {kids[x] : x \in S}, n - 1)

Descendants(kids, c) == Reach(kids, kids[c], MaxClosers)

ClTop(g) == clStack[g][Len(clStack[g])]
ClPop(g) == [clStack EXCEPT ![g] = SubSeq(@, 1, Len(@) - 1)]
ClSetTop(g, f) == [clStack EXCEPT ![g][Len(clStack[g])] = f]
ClCall(g, f) == [clStack EXCEPT ![g] = Append(@, f)]
ClRunning(g, fnName, pc) ==
    /\ clStack[g] # <<>>
    /\ ClTop(g).fn = fnName
    /\ ClTop(g).pc = pc

CloseFrame(c, e) == [fn |-> "Close", c |-> c, err |-> e, pc |-> "once", todo |-> {}]
AddChildFrame(c, child) == [fn |-> "AddChild", c |-> c, child |-> child, pc |-> "lock"]
WaitFrame(c) == [fn |-> "Wait", c |-> c, pc |-> "recv"]

\* Close, entering c.once.Do: nothing to do once the first Close is done,
\* otherwise the function runs under the mutex of the Once.
CloseOnce(g) ==
    /\ ClRunning(g, "Close", "once")
    /\ LET c == ClTop(g).c IN
         IF OnceDone(c)
         THEN /\ clStack' = ClPop(g)
              /\ UNCHANGED clOnce
         ELSE /\ clOnce[c].m = NoGoroutine
              /\ clOnce' = [clOnce EXCEPT ![c].m = g]
              /\ clStack' = ClSetTop(g, [ClTop(g) EXCEPT !.pc = "lock"])
    /\ UNCHANGED <<clMade, clClosed, clErr, clChildren, clLock, clCall, clRet, notCl>>

\* Close, inside the Once: take c.lock, keep the error, close the channel,
\* set closed; propagate then ranges over the children.
CloseLock(g) ==
    /\ ClRunning(g, "Close", "lock")
    /\ LET c == ClTop(g).c IN
         /\ clLock[c] = NoGoroutine
         /\ clLock' = [clLock EXCEPT ![c] = g]
         /\ clErr' = [clErr EXCEPT ![c] = ClTop(g).err]
         /\ clClosed' = [clClosed EXCEPT ![c] = TRUE]
         /\ clStack' = ClSetTop(g, [ClTop(g) EXCEPT !.pc = "propagate",
                                                    !.todo = PropagateTargets(c)])
    /\ UNCHANGED <<clMade, clChildren, clOnce, clCall, clRet, notCl>>

\* The error propagate hands to a child.
PropagatedErr_Nil(c) == "nil"

PropagatedErr(c) == clErr[c]

\* propagate: ch.Close(c.err) for the next child, in the order of the map.
ClosePropagate(g) ==
    /\ ClRunning(g, "Close", "propagate")
    /\ \E ch \in ClTop(g).todo :
         clStack' = [clStack EXCEPT ![g] =
                        Append(SubSeq(@, 1, Len(@) - 1),
                               [ClTop(g) EXCEPT !.todo = @ \ {ch}])
                        \o <<CloseFrame(ch, PropagatedErr(ClTop(g).c))>>]
    /\ UNCHANGED <<clMade, clClosed, clErr, clChildren, clLock, clOnce, clCall, clRet, notCl>>

\* Close returns: c.lock is released, the Once is done and its mutex released.
CloseReturn(g) ==
    /\ ClRunning(g, "Close", "propagate")
    /\ ClTop(g).todo = {}
    /\ LET c == ClTop(g).c IN
         /\ clLock' = [clLock EXCEPT ![c] = NoGoroutine]
         /\ clOnce' = [clOnce EXCEPT ![c] = [m |-> NoGoroutine, done |-> TRUE]]
    /\ clStack' = ClPop(g)
    /\ UNCHANGED <<clMade, clClosed, clErr, clChildren, clCall, clRet, notCl>>

\* AddChild under c.lock: a closed parent closes the child with its error
\* and keeps the lock until that Close returned; an open parent adds the
\* child unless it has it.
AddChildLock(g) ==
    /\ ClRunning(g, "AddChild", "lock")
    /\ LET c == ClTop(g).c
           child == ClTop(g).child IN
         /\ clLock[c] = NoGoroutine
         /\ IF ParentClosed(c)
            THEN /\ clLock' = [clLock EXCEPT ![c] = g]
                 /\ clStack' = [clStack EXCEPT ![g] =
                                    Append(SubSeq(@, 1, Len(@) - 1),
                                           [ClTop(g) EXCEPT !.pc = "unlock"])
                                    \o <<CloseFrame(child, clErr[c])>>]
                 /\ UNCHANGED clChildren
            ELSE /\ clChildren' = [clChildren EXCEPT ![c] = @ \cup {child}]
                 /\ clStack' = ClPop(g)
                 /\ UNCHANGED clLock
    /\ UNCHANGED <<clMade, clClosed, clErr, clOnce, clCall, clRet, notCl>>

AddChildUnlock(g) ==
    /\ ClRunning(g, "AddChild", "unlock")
    /\ clLock' = [clLock EXCEPT ![ClTop(g).c] = NoGoroutine]
    /\ clStack' = ClPop(g)
    /\ UNCHANGED <<clMade, clClosed, clErr, clChildren, clOnce, clCall, clRet, notCl>>

\* Wait's c.lock.Lock() after the receive: it returns when no call holds
\* the mutex.
WaitLockFree_Always(c) == TRUE

WaitLockFree(c) == clLock[c] = NoGoroutine

\* Wait: receive from the closed channel, then read c.err under c.lock.
WaitReturn(g) ==
    /\ ClRunning(g, "Wait", "recv")
    /\ LET c == ClTop(g).c IN
         /\ clClosed[c]
         /\ WaitLockFree(c)
         /\ clRet' = [clRet EXCEPT ![g] = clErr[c]]
    /\ clStack' = ClPop(g)
    /\ UNCHANGED <<clMade, clClosed, clErr, clChildren, clLock, clOnce, clCall, notCl>>

\* The calls a goroutine makes when it is in no call.
CallNew(g) ==
    /\ clStack[g] = <<>>
    /\ clMade < MaxClosers
    /\ clMade' = clMade + 1
    /\ clCall' = Record(g, [fn |-> "New", c |-> clMade + 1])
    /\ UNCHANGED <<clClosed, clErr, clChildren, clLock, clOnce, clStack, clRet, notCl>>

CallClose(g) ==
    /\ clStack[g] = <<>>
    /\ \E c \in Made, e \in Errors :
         /\ clStack' = ClCall(g, CloseFrame(c, e))
         /\ clCall' = Record(g,
                [fn |-> "Close", c |-> c, err |-> e,
                 open |-> {n \in Descendants(clChildren, c) : ~clClosed[n]}])
    /\ UNCHANGED <<clMade, clClosed, clErr, clChildren, clLock, clOnce, clRet, notCl>>

CallAddChild(g) ==
    /\ clStack[g] = <<>>
    /\ \E c \in Made, child \in Made :
         /\ clStack' = ClCall(g, AddChildFrame(c, child))
         /\ clCall' = Record(g,
                [fn |-> "AddChild", c |-> c, child |-> child,
                 closedParent |-> clClosed[c], openChild |-> ~clClosed[child]])
    /\ UNCHANGED <<clMade, clClosed, clErr, clChildren, clLock, clOnce, clRet, notCl>>

\* Child: New, then AddChild of the new closer.
CallChild(g) ==
    /\ clStack[g] = <<>>
    /\ clMade < MaxClosers
    /\ clMade' = clMade + 1
    /\ \E c \in Made :
         /\ clStack' = ClCall(g, AddChildFrame(c, clMade + 1))
         /\ clCall' = Record(g,
                [fn |-> "Child", c |-> c, child |-> clMade + 1,
                 closedParent |-> clClosed[c], openChild |-> TRUE])
    /\ UNCHANGED <<clClosed, clErr, clChildren, clLock, clOnce, clRet, notCl>>

CallWait(g) ==
    /\ clStack[g] = <<>>
    /\ \E c \in Made :
         /\ clStack' = ClCall(g, WaitFrame(c))
         /\ clCall' = Record(g, [fn |-> "Wait", c |-> c])
    /\ UNCHANGED <<clMade, clClosed, clErr, clChildren, clLock, clOnce, clRet, notCl>>

\* No closer has been made.
ClIdle ==
    /\ clMade = 0
    /\ clClosed = [c \in Closers |-> FALSE]
    /\ clErr = [c \in Closers |-> "nil"]
    /\ clChildren = [c \in Closers |-> {}]
    /\ clLock = [c \in Closers |-> NoGoroutine]
    /\ clOnce = [c \in Closers |-> [m |-> NoGoroutine, done |-> FALSE]]
    /\ clStack = [g \in Goroutines |-> <<>>]
    /\ clCall = [g \in Goroutines |-> NoCall]
    /\ clRet = [g \in Goroutines |-> "none"]

-----------------------------------------------------------------------------
(* The child graph.  kids[t] is stack.children of t: the stacks whose      *)
(* templates called stack(t).                                              *)

\* stack.isChild with the recursion limited to the direct children.
IsChild_DirectOnly(kids, s, name, fuel) ==
    IF name \in kids[s] THEN {<<name, s>>} ELSE {}

\* stack.isChild(name) on node s: the chains it can return, one for each
\* order in which the maps can be ranged over; the empty set stands for nil.
\* fuel bounds the depth of the recursion by the number of stacks.
RECURSIVE IsChild(_, _, _, _)
IsChild(kids, s, name, fuel) ==
    (IF name \in kids[s] THEN {<<name, s>>} ELSE {})
    \cup (IF fuel = 0 THEN {}
          ELSE UNION {{Append(r, s) : r \in IsChild(kids, c, name, fuel - 1)} :
                        c \in kids[s] \ {name}})

\* s.addChild(child): what it can return, and the child sets it leaves.
AddChild(kids, s, child) ==
    IF child \in kids[s]
    THEN {[err |-> "nil", chain |-> <<>>, kids |-> kids]}
    ELSE LET chains == IsChild(kids, child, s, Cardinality(DOMAIN kids)) IN
         IF chains # {}
         THEN {[err |-> "cyclic dependency", chain |-> Append(c, s), kids |-> kids] :
                  c \in chains}
         ELSE {[err |-> "nil", chain |-> <<>>,
                kids |-> [kids EXCEPT ![s] = @ \cup {child}]]}

\* The helper stack(name) in the template of child, up to addChild: the
\* self-reference test, getStack, addChild.
HelperAddChild_NoSelfTest(kids, known, child, name) ==
    IF name \notin known
    THEN {[err |-> "stack not found", chain |-> <<>>, kids |-> kids]}
    ELSE AddChild(kids, name, child)

HelperAddChild(kids, known, child, name) ==
    IF child = name
    THEN {[err |-> "self reference", chain |-> <<>>, kids |-> kids]}
    ELSE IF name \notin known
    THEN {[err |-> "stack not found", chain |-> <<>>, kids |-> kids]}
    ELSE AddChild(kids, name, child)

MaxGraphStacks == 3

GraphStacks == 0..MaxGraphStacks
GraphCallers == GraphStacks \ {RootStack}
GraphNames == GraphStacks \cup {MaxGraphStacks + 1}

NoHelperCall == [child |-> RootStack, name |-> RootStack, err |-> "none"]

GrIdle ==
    /\ grChildren = [t \in GraphStacks |-> {}]
    /\ grLast = NoHelperCall

\* Any stack but the root calls stack(name) in a template.  What the helper
\* does after addChild (the gate, the verify hook) changes child sets only
\* through further helper calls.
GraphHelperCall ==
    /\ \E child \in GraphCallers, name \in GraphNames :
         \E r \in HelperAddChild(grChildren, GraphStacks, child, name) :
            /\ grChildren' = r.kids
            /\ grLast' = [child |-> child, name |-> name, err |-> r.err,
                          chain |-> r.chain, before |-> grChildren]
    /\ UNCHANGED notGr

-----------------------------------------------------------------------------
(* The stack manager and the command handlers.  A run is a stack of calls; *)
(* the provider, the file system and the user answer as they like.         *)

MaxParams == 1
MaxPlans == 3

\* The stack statuses of the provider, and the status of a stack that
\* DescribeStacks does not find.
StackStatusNotFound == <<"STACK", "NOT", "FOUND">>
ProviderStackStatuses ==
    {<<"CREATE", "IN", "PROGRESS">>, <<"CREATE", "FAILED">>, <<"CREATE", "COMPLETE">>,
     <<"ROLLBACK", "IN", "PROGRESS">>, <<"ROLLBACK", "FAILED">>, <<"ROLLBACK", "COMPLETE">>,
     <<"DELETE", "IN", "PROGRESS">>, <<"DELETE", "FAILED">>, <<"DELETE", "COMPLETE">>,
     <<"UPDATE", "IN", "PROGRESS">>, <<"UPDATE", "COMPLETE", "CLEANUP", "IN", "PROGRESS">>,
     <<"UPDATE", "COMPLETE">>, <<"UPDATE", "ROLLBACK", "IN", "PROGRESS">>,
     <<"UPDATE", "ROLLBACK", "FAILED">>,
     <<"UPDATE", "ROLLBACK", "COMPLETE", "CLEANUP", "IN", "PROGRESS">>,
     <<"UPDATE", "ROLLBACK", "COMPLETE">>, <<"REVIEW", "IN", "PROGRESS">>}
StackStatuses == ProviderStackStatuses \cup {StackStatusNotFound}

\* StackData.IsInProgress / IsComplete / IsFailed / IsRollback / Exists
IsInProgress(status) == HasSuffixWords(status, <<"IN", "PROGRESS">>)
IsComplete(status) == HasSuffixWords(status, <<"COMPLETE">>)
IsFailed(status) == HasSuffixWords(status, <<"FAILED">>)
IsRollback(status) == ContainsInnerWord(status, "ROLLBACK")
Exists(status) == status # StackStatusNotFound

\* The callback stack.execute gives to trackUpdates.
ExecuteCallback(status) ==
    IF IsInProgress(status) THEN [retry |-> TRUE, err |-> "nil"]
    ELSE IF IsComplete(status) /\ ~IsRollback(status) THEN [retry |-> FALSE, err |-> "nil"]
    ELSE [retry |-> FALSE, err |-> "invalid status"]

\* What DescribeChangeSet can answer while stack.plan waits.
NoChangesReason ==
    "The submitted information didn't contain changes. Submit different information to create a change set."
OtherReason == "No updates are to be performed."
NestedChange == [Details |-> <<NestedDetail>>]
DirectChange ==
    [Details |-> <<[ChangeSource |-> "DirectModification", Evaluation |-> "Static",
                    Attribute |-> "Properties", RequiresRecreation |-> "Never"]>>]
NoChangeSet == [Status |-> "none", StatusReason |-> "", Changes |-> <<>>]
ChangeSetOutcomes ==
    {[Status |-> "CREATE_PENDING", StatusReason |-> "", Changes |-> <<>>],
     [Status |-> "CREATE_IN_PROGRESS", StatusReason |-> "", Changes |-> <<>>],
     [Status |-> "CREATE_COMPLETE", StatusReason |-> "", Changes |-> <<DirectChange>>],
     [Status |-> "CREATE_COMPLETE", StatusReason |-> "", Changes |-> <<NestedChange>>],
     [Status |-> "DELETE_COMPLETE", StatusReason |-> "", Changes |-> <<>>],
     [Status |-> "CHANGE_SET_NOT_FOUND", StatusReason |-> "", Changes |-> <<>>],
     [Status |-> "FAILED", StatusReason |-> NoChangesReason, Changes |-> <<>>],
     [Status |-> "FAILED", StatusReason |-> OtherReason, Changes |-> <<>>],
     [Status |-> "FAILED", StatusReason |-> "", Changes |-> <<DirectChange>>]}

\* ChangeSetData.IsInProgress / IsFailed
CsIsInProgress(cs) == cs.Status \in {"CREATE_PENDING", "CREATE_IN_PROGRESS"}

CsIsFailed_StatusOnly(cs) == cs.Status = "FAILED"

CsIsFailed(cs) ==
    IF cs.Status = "FAILED" /\ cs.StatusReason = NoChangesReason
    THEN FALSE
    ELSE cs.Status = "FAILED"

\* The callback stack.plan gives to ChangeSet.Wait.
PlanCallback_FailedEnds(cs) ==
    IF CsIsInProgress(cs) THEN [retry |-> TRUE, err |-> "nil"]
    ELSE [retry |-> FALSE, err |-> "nil"]

PlanCallback(cs) ==
    IF CsIsFailed(cs) THEN [retry |-> FALSE, err |-> "cannot create change set"]
    ELSE IF CsIsInProgress(cs) THEN [retry |-> TRUE, err |-> "nil"]
    ELSE [retry |-> FALSE, err |-> "nil"]

\* The id CreateChangeSet returns for the n-th change set of the run.
ChangeSetARN(name, n) ==
    <<"arn", "aws", "cloudformation", "region", "account", <<"changeSet", name, n>> >>

\* The test of tplGetStackData that returns the snapshot without the hook.
FreshnessGate_Always(isUpdated, isPlanned, changed) == TRUE

FreshnessGate_UpdatedOnly(isUpdated, isPlanned, changed) == isUpdated

FreshnessGate(isUpdated, isPlanned, changed) == isUpdated \/ (isPlanned /\ ~changed)

\* askForConfirmation on one line of input; "again" prompts once more.
Answers == {"yes", "no", "n", "", "y", "yes please", "EOF"}

AskForConfirmation_YApproves(fl, answer) ==
    IF fl.autoApprove THEN "approved"
    ELSE IF ~fl.input THEN "no input"
    ELSE IF answer = "" THEN "again"
    ELSE IF answer \in {"yes please", "EOF"} THEN "cannot read from stdin"
    ELSE IF answer \in {"yes", "y"} THEN "approved"
    ELSE IF answer \in {"no", "n"} THEN "not confirmed"
    ELSE "again"

AskForConfirmation_NoApproves(fl, answer) ==
    IF fl.autoApprove THEN "approved"
    ELSE IF ~fl.input THEN "no input"
    ELSE IF answer = "" THEN "again"
    ELSE IF answer \in {"yes please", "EOF"} THEN "cannot read from stdin"
    ELSE IF answer \in {"yes", "no"} THEN "approved"
    ELSE IF answer = "n" THEN "not confirmed"
    ELSE "again"

AskForConfirmation(fl, answer) ==
    IF fl.autoApprove THEN "approved"
    ELSE IF ~fl.input THEN "no input"
    ELSE IF answer = "" THEN "again"
    ELSE IF answer \in {"yes please", "EOF"} THEN "cannot read from stdin"
    ELSE IF answer = "yes" THEN "approved"
    ELSE IF answer \in {"no", "n"} THEN "not confirmed"
    ELSE "again"

\* The inputs of a stack that call the helper: the RoleARN template, rendered
\* first, and the templates of the parameters and tags, rendered in the order
\* of the map.  The configuration is fixed; it is read when a stack is first
\* rendered.
NoRef == 0 - 1
Templates ==
    [read : {TRUE},
     role : StackNames \cup {NoRef},
     params : UNION {[1..n -> StackNames] : n \in 0..MaxParams}]
Unread == [read |-> FALSE, role |-> NoRef, params |-> <<>>]

Flags ==
    [autoApprove : BOOLEAN, input : BOOLEAN, verifyParentStacks : BOOLEAN,
     ignoreNestedUpdates : BOOLEAN]
NoFlags ==
    [autoApprove |-> FALSE, input |-> FALSE, verifyParentStacks |-> FALSE,
     ignoreNestedUpdates |-> FALSE]

NoHelper == [child |-> RootStack, name |-> RootStack, verified |-> 0,
             wasUpdated |-> TRUE, wasPlanned |-> FALSE, hadChange |-> FALSE,
             status |-> <<>>]

Top == callStack[Len(callStack)]
Pop == SubSeq(callStack, 1, Len(callStack) - 1)
SetTop(f) == [callStack EXCEPT ![Len(callStack)] = f]
Call(f, g) == Append(Pop, f) \o <<g>>
Running(fnName, pc) ==
    /\ callStack # <<>>
    /\ Top.fn = fnName
    /\ Top.pc = pc

NoRet == [fn |-> "none", err |-> "nil"]

Return(r) ==
    /\ callStack' = Pop
    /\ ret' = r

\* The frame of Plan(name); entry keeps the flags of the node at the call.
PlanFrame(name) ==
    [fn |-> "Plan", name |-> name, pc |-> "getStack", roleDone |-> FALSE, todo |-> {},
     id |-> 0, call |-> NoHelper,
     entry |-> IF name \in Stacks
               THEN <<planned[name], hasChange[name], updated[name]>>
               ELSE <<>>]
ExecuteFrame(name, plan) ==
    [fn |-> "Execute", name |-> name, plan |-> plan, pc |-> "NewChangeSet", cs |-> "unread"]
DeployStackFrame(name) ==
    [fn |-> "deployStack", name |-> name, pc |-> "start", plan |-> <<>>]
VerifyStackFrame(name) == [fn |-> "verifyStack", name |-> name, pc |-> "start"]
InitFrame == [fn |-> "init", pc |-> "start"]
DeployFrame(name) == [fn |-> "deploy", name |-> name, pc |-> "start"]

\* What the steps of Execute, of Plan and of the handlers leave alone.
notExecute == <<flags, tpl, planned, hasChange, children, bucket, nextPlan, confirmed,
                helperDone>>
notPlan == <<flags, updated, stackStatus, bucket, executed, confirmed>>
notHandler == <<flags, tpl, updated, planned, hasChange, children, stackStatus,
                nextPlan, executed, helperDone>>

\* StackManager.Execute after stack.execute returned err: the flag, then the
\* return of the snapshot and the annotated error.
UpdatedAfterExecute(err, was) == IF err # "nil" THEN TRUE ELSE was

ExecuteReturns(name, err) ==
    /\ updated' = [updated EXCEPT ![name] = UpdatedAfterExecute(err, updated[name])]
    /\ Return([fn |-> "Execute", name |-> name, err |-> err])

\* What DescribeChangeSet answers for the change set of a plan: its
\* ExecutionStatus, that there is no such change set, or an error.
DescribeAnswers == {"AVAILABLE", "UNAVAILABLE", "not found", "error"}

\* StackManager.Execute up to NewChangeSet: getStack, then one DescribeChangeSet
\* (updateOnce).  A change set the provider does not find is no error here,
\* and the snapshot is kept in the ChangeSet.
ExecuteNewChangeSet ==
    /\ Running("Execute", "NewChangeSet")
    /\ IF Top.name \notin Stacks
       THEN /\ Return([fn |-> "Execute", name |-> Top.name, err |-> "stack not found"])
            /\ UNCHANGED <<updated, stackStatus, executed>>
       ELSE \E describe \in DescribeAnswers :
                IF describe = "error"
                THEN /\ ExecuteReturns(Top.name, "cannot describe change set")
                     /\ UNCHANGED <<stackStatus, executed>>
                ELSE /\ callStack' = SetTop([Top EXCEPT !.pc = "ExecuteChangeSet",
                                                         !.cs = describe])
                     /\ UNCHANGED <<updated, stackStatus, ret, executed>>
    /\ UNCHANGED <<notExecute, notSm>>

\* ChangeSet.Execute: the provider's ExecuteChangeSet, which may fail.  The
\* snapshot of the change set is not looked at.
ExecuteChangeSet ==
    /\ Running("Execute", "ExecuteChangeSet")
    /\ executed' = executed \cup
          {[stack |-> Top.name, plan |-> Top.plan, wasUpdated |-> updated[Top.name]]}
    /\ \E ok \in BOOLEAN :
           IF ok
           THEN /\ callStack' = SetTop([Top EXCEPT !.pc = "poll"])
                /\ UNCHANGED <<updated, ret>>
           ELSE ExecuteReturns(Top.name, "cannot execute change set")
    /\ UNCHANGED <<stackStatus, notExecute, notSm>>

\* One cycle of Stack.update under trackUpdates: read the stack, store the
\* snapshot, call the callback.  A read error or a callback error closes the
\* closer with the error, the end of the loop closes it with nil, and
\* stack.execute returns what the closer holds.  statuses are the statuses
\* the provider answers with.
ExecutePollOver(statuses) ==
    /\ Running("Execute", "poll")
    /\ \/ /\ ExecuteReturns(Top.name, "cannot read stack")
          /\ UNCHANGED stackStatus
       \/ \E status \in statuses :
             /\ stackStatus' = [stackStatus EXCEPT ![Top.name] = status]
             /\ IF ExecuteCallback(status).retry
                THEN UNCHANGED <<updated, callStack, ret>>
                ELSE ExecuteReturns(Top.name, ExecuteCallback(status).err)
    /\ UNCHANGED <<executed, notExecute, notSm>>

\* Execute polls a provider that can answer with every status.
ExecutePoll == ExecutePollOver(StackStatuses)

\* Execute polls a provider that answers with the statuses of an update: in
\* progress, complete, rolled back, failed.
UpdateStatuses ==
    {<<"UPDATE", "IN", "PROGRESS">>, <<"UPDATE", "COMPLETE">>,
     <<"UPDATE", "ROLLBACK", "COMPLETE">>, <<"UPDATE", "ROLLBACK", "FAILED">>}

ExecutePollUpdate == ExecutePollOver(UpdateStatuses)

PlanReturnsErr(e) ==
    Return([fn |-> "Plan", name |-> Top.name, err |-> e, cs |-> NoChangeSet])

\* StackManager.Plan: getStack, and the inputs renderStackData will render.
PlanGetStack ==
    /\ Running("Plan", "getStack")
    /\ IF Top.name \notin Stacks
       THEN /\ PlanReturnsErr("stack not found")
            /\ UNCHANGED tpl
       ELSE \E t \in Templates :
               /\ tpl[Top.name].read => t = tpl[Top.name]
               /\ tpl' = [tpl EXCEPT ![Top.name] = t]
               /\ callStack' = SetTop([Top EXCEPT !.pc = "render",
                                                  !.roleDone = (t.role = NoRef),
                                                  !.todo = DOMAIN t.params])
               /\ UNCHANGED ret
    /\ UNCHANGED <<planned, hasChange, children, nextPlan, helperDone, notPlan, notSm>>

\* StackManager.render installs the helper `stack` for every stack but the
\* root.
HelperInstalled_Always(name) == TRUE

HelperInstalled(name) == name # RootStack

\* renderStackData renders the next input that calls stack(target).  The
\* root has no helper; elsewhere the helper refuses a self reference, an
\* unknown stack and a cycle, returns the snapshot if the gate allows it, and
\* calls the verify hook if not.  An error of the helper is a panic that
\* render returns as the error of Plan.
PlanRender ==
    /\ Running("Plan", "render")
    /\ \E k \in (IF Top.roleDone THEN Top.todo ELSE {0}) :
         LET target == IF k = 0 THEN tpl[Top.name].role ELSE tpl[Top.name].params[k]
             rest == IF k = 0 THEN [Top EXCEPT !.roleDone = TRUE]
                               ELSE [Top EXCEPT !.todo = @ \ {k}]
         IN
         IF ~HelperInstalled(Top.name)
         THEN /\ PlanReturnsErr("function stack not defined")
              /\ UNCHANGED <<children, helperDone>>
         ELSE \E r \in HelperAddChild(children, Stacks, Top.name, target) :
                IF r.err # "nil"
                THEN /\ PlanReturnsErr(r.err)
                     /\ UNCHANGED <<children, helperDone>>
                ELSE LET call == [child |-> Top.name, name |-> target, verified |-> 0,
                                  wasUpdated |-> updated[target],
                                  wasPlanned |-> planned[target],
                                  hadChange |-> hasChange[target],
                                  status |-> stackStatus[target]]
                     IN
                     /\ children' = r.kids
                     /\ IF FreshnessGate(updated[target], planned[target],
                                         hasChange[target])
                        THEN /\ helperDone' = call
                             /\ callStack' = SetTop(rest)
                             /\ UNCHANGED ret
                        ELSE /\ callStack' =
                                  Call([rest EXCEPT !.pc = "verify", !.call = call],
                                       VerifyStackFrame(target))
                             /\ UNCHANGED <<ret, helperDone>>
    /\ UNCHANGED <<tpl, planned, hasChange, nextPlan, notPlan, notSm>>

\* The verify hook returned to the helper: its error is the helper's, and
\* without one the helper returns the snapshot, of which the status is kept.
HelperReturns ==
    /\ Running("Plan", "verify")
    /\ IF ret.err # "nil"
       THEN /\ PlanReturnsErr("stack is not deployed")
            /\ UNCHANGED helperDone
       ELSE /\ helperDone' = [Top.call EXCEPT
                                 !.verified = IF ret.fn = "verifyStack" THEN 1 ELSE 0,
                                 !.status = stackStatus[Top.call.name]]
            /\ callStack' = SetTop([Top EXCEPT !.pc = "render"])
            /\ UNCHANGED ret
    /\ UNCHANGED <<tpl, planned, hasChange, children, nextPlan, notPlan, notSm>>

\* The end of renderStackData (the template is uploaded or read) and the
\* CreateChangeSet of stack.plan.
PlanCreateChangeSet ==
    /\ Running("Plan", "render")
    /\ Top.roleDone
    /\ Top.todo = {}
    /\ \/ /\ PlanReturnsErr("cannot upload or read template")
          /\ UNCHANGED nextPlan
       \/ /\ PlanReturnsErr("cannot create change set")
          /\ UNCHANGED nextPlan
       \/ /\ nextPlan <= MaxPlans
          /\ nextPlan' = nextPlan + 1
          /\ callStack' = SetTop([Top EXCEPT !.pc = "wait", !.id = nextPlan])
          /\ UNCHANGED ret
    /\ UNCHANGED <<tpl, planned, hasChange, children, helperDone, notPlan, notSm>>

\* One DescribeChangeSet of ChangeSet.Wait under stack.plan, and, when the
\* wait is over without error, newPlan and the flags of the node.
PlanWait ==
    /\ Running("Plan", "wait")
    /\ \/ /\ PlanReturnsErr("cannot describe change set")
          /\ UNCHANGED <<planned, hasChange>>
       \/ \E cs \in ChangeSetOutcomes :
            LET cb == PlanCallback(cs)
                plan == newPlan([ID |-> ChangeSetARN(Top.name, Top.id),
                                 Changes |-> cs.Changes, Parameters |-> <<>>],
                                [Parameters |-> <<>>], flags.ignoreNestedUpdates)
            IN
            IF cb.retry
            THEN UNCHANGED <<planned, hasChange, callStack, ret>>
            ELSE IF cb.err # "nil" \/ plan.err # "nil"
            THEN /\ Return([fn |-> "Plan", name |-> Top.name, cs |-> cs,
                            err |-> IF cb.err # "nil" THEN cb.err ELSE plan.err])
                 /\ UNCHANGED <<planned, hasChange>>
            ELSE /\ planned' = [planned EXCEPT ![Top.name] = TRUE]
                 /\ hasChange' = [hasChange EXCEPT ![Top.name] = plan.HasChange]
                 /\ Return([fn |-> "Plan", name |-> Top.name, cs |-> cs, err |-> "nil",
                            plan |-> [ID |-> plan.ID, HasChange |-> plan.HasChange]])
    /\ UNCHANGED <<tpl, children, nextPlan, helperDone, notPlan, notSm>>

\* stackCmdHandler.verifyStack, the verify hook of the manager.
VerifyStack ==
    /\ \/ /\ Running("verifyStack", "start")
          /\ IF ~flags.verifyParentStacks
             THEN Return([fn |-> "verifyStack", err |-> "nil"])
             ELSE /\ callStack' = Call([Top EXCEPT !.pc = "deployStack"],
                                       DeployStackFrame(Top.name))
                  /\ UNCHANGED ret
       \/ /\ Running("verifyStack", "deployStack")
          /\ Return([fn |-> "verifyStack",
                     err |-> IF ret.err # "nil" THEN "cannot verify parent stack"
                                                ELSE "nil"])
    /\ UNCHANGED <<bucket, confirmed, notHandler, notSm>>

\* stackCmdHandler.deployStack around Plan, and around Execute.
DeployStack ==
    /\ \/ /\ Running("deployStack", "start")
          /\ callStack' = Call([Top EXCEPT !.pc = "Plan"], PlanFrame(Top.name))
          /\ UNCHANGED ret
       \/ /\ Running("deployStack", "Plan")
          /\ IF ret.err # "nil"
             THEN Return([fn |-> "deployStack", err |-> "cannot plan stack",
                          hasChange |-> FALSE])
             ELSE IF ret.plan.HasChange
             THEN /\ callStack' = SetTop([Top EXCEPT !.pc = "confirm",
                                                     !.plan = ret.plan.ID])
                  /\ UNCHANGED ret
             ELSE Return([fn |-> "deployStack", err |-> "nil", hasChange |-> FALSE])
       \/ /\ Running("deployStack", "Execute")
          /\ Return([fn |-> "deployStack",
                     err |-> IF ret.err # "nil" THEN "execution failed" ELSE "nil",
                     hasChange |-> ret.err = "nil"])
    /\ UNCHANGED <<bucket, confirmed, notHandler, notSm>>

\* deployStack asks for confirmation of a plan that has changes, and calls
\* Execute when it is given.
Confirm ==
    /\ Running("deployStack", "confirm")
    /\ \E answer \in Answers :
         LET result == AskForConfirmation(flags, answer)
             read == IF flags.autoApprove \/ ~flags.input THEN "not asked" ELSE answer
         IN
         IF result = "again"
         THEN UNCHANGED <<confirmed, callStack, ret>>
         ELSE /\ confirmed' = confirmed \cup {[plan |-> Top.plan, answer |-> read]}
              /\ IF result = "approved"
                 THEN /\ callStack' = Call([Top EXCEPT !.pc = "Execute"],
                                           ExecuteFrame(Top.name, Top.plan))
                      /\ UNCHANGED ret
                 ELSE Return([fn |-> "deployStack", err |-> "changes are not approved",
                              hasChange |-> FALSE])
    /\ UNCHANGED <<bucket, notHandler, notSm>>

\* stackCmdHandler.init: deployStack of the bootstrap stack, then the bucket
\* of its outputs and SyncFiles.  Annotatef of a nil error is nil, so a
\* bootstrap stack without the Bucket output ends init without error.  The
\* returned record says whether the outputs were read and held Bucket.
HandlerInit ==
    /\ \/ /\ Running("init", "start")
          /\ callStack' = Call([Top EXCEPT !.pc = "deployStack"],
                               DeployStackFrame(RootStack))
          /\ UNCHANGED <<ret, bucket>>
       \/ /\ Running("init", "deployStack")
          /\ IF ret.err # "nil"
             THEN /\ Return([fn |-> "init", err |-> "initialization failed",
                             output |-> "unread"])
                  /\ UNCHANGED bucket
             ELSE \E outcome \in {"no Bucket output", "synced", "cannot sync files"} :
                    IF outcome = "no Bucket output"
                    THEN /\ Return([fn |-> "init", err |-> "nil", output |-> "absent"])
                         /\ UNCHANGED bucket
                    ELSE /\ bucket' = "bucket"
                         /\ Return([fn |-> "init", output |-> "present",
                                    err |-> IF outcome = "synced" THEN "nil" ELSE outcome])
    /\ UNCHANGED <<confirmed, notHandler, notSm>>

\* stackCmdHandler.deploy: init unless the stack is the bootstrap stack,
\* then deployStack.
Deploy ==
    /\ \/ /\ Running("deploy", "start")
          /\ callStack' = IF Top.name # RootStack
                          THEN Call([Top EXCEPT !.pc = "init"], InitFrame)
                          ELSE Call([Top EXCEPT !.pc = "deployStack"],
                                    DeployStackFrame(Top.name))
          /\ UNCHANGED ret
       \/ /\ Running("deploy", "init")
          /\ IF ret.err # "nil"
             THEN Return([fn |-> "deploy", err |-> "init failed"])
             ELSE /\ callStack' = Call([Top EXCEPT !.pc = "deployStack"],
                                       DeployStackFrame(Top.name))
                  /\ UNCHANGED ret
       \/ /\ Running("deploy", "deployStack")
          /\ Return([fn |-> "deploy",
                     err |-> IF ret.err # "nil" THEN "deployment failed" ELSE "nil"])
    /\ UNCHANGED <<bucket, confirmed, notHandler, notSm>>

\* The manager as NewStackManager leaves it, before any command.
SmFresh ==
    /\ tpl = [s \in Stacks |-> Unread]
    /\ updated = [s \in Stacks |-> FALSE]
    /\ planned = [s \in Stacks |-> FALSE]
    /\ hasChange = [s \in Stacks |-> FALSE]
    /\ children = [s \in Stacks |-> {}]
    /\ bucket = ""
    /\ nextPlan = 1
    /\ ret = NoRet
    /\ executed = {}
    /\ confirmed = {}
    /\ helperDone = NoHelper

SmIdle ==
    /\ SmFresh
    /\ flags = NoFlags
    /\ stackStatus = [s \in Stacks |-> StackStatusNotFound]
    /\ callStack = <<>>

-----------------------------------------------------------------------------
(* The Wait loops of pkg/cfn: Stack.Wait, StackEvents.Wait and             *)
(* ChangeSet.Wait.  Each runs update in a goroutine of its own and then    *)
(* closes the closer of its config as CloseOnEnd and CloseOnError say.     *)
(* A run of the model holds one loop; an event is the number of its        *)
(* position in the history of the stack, a change the number of its        *)
(* position in the change set.                                             *)

MaxPolls == 3
MaxEvents == 4
MaxCsChanges == 3
PageSize == 2

WaitKinds == {"stack", "events", "changeset"}

\* The statuses DescribeStacks answers with while a loop waits.
WaitStatuses ==
    {<<"CREATE", "IN", "PROGRESS">>, <<"UPDATE", "IN", "PROGRESS">>,
     <<"UPDATE", "COMPLETE">>, <<"UPDATE", "ROLLBACK", "COMPLETE">>,
     StackStatusNotFound}

\* The functions trackUpdates is given, and a callback of any behaviour.
TrackFns == {"execute", "destroy"}
CallbackFns == TrackFns \cup {"any"}

WaitConfigs == [CloseOnEnd : BOOLEAN, CloseOnError : BOOLEAN, fn : CallbackFns]

\* What a callback of any behaviour can return.
AnyOutcomes == [retry : BOOLEAN, err : {"nil", "callback failed"}]

\* The callback of stack.destroy with the test of stack.execute for the end.
DestroyCallback_UntilComplete(status) ==
    IF IsInProgress(status) THEN [retry |-> TRUE, err |-> "nil"]
    ELSE IF IsComplete(status) /\ ~IsRollback(status) THEN [retry |-> FALSE, err |-> "nil"]
    ELSE [retry |-> FALSE, err |-> "invalid status"]

\* The callback stack.destroy gives to trackUpdates.
DestroyCallback(status) ==
    IF IsInProgress(status) THEN [retry |-> TRUE, err |-> "nil"]
    ELSE IF ~Exists(status) THEN [retry |-> FALSE, err |-> "nil"]
    ELSE [retry |-> FALSE, err |-> "invalid status"]

\* What the callback of the stack loop can return for a snapshot.
StackOutcomes(fn, status) ==
    CASE fn = "execute" -> {ExecuteCallback(status)}
      [] fn = "destroy" -> {DestroyCallback(status)}
      [] OTHER -> AnyOutcomes

\* The callback trackUpdates wraps around fn: the snapshot is emitted when
\* fn asks for another poll and the status differs from the last emitted.
TrackEmits(emitted, lastStatus, status, retry) ==
    IF retry /\ status # lastStatus THEN Append(emitted, status) ELSE emitted

TrackLastStatus(lastStatus, status, retry) ==
    IF retry /\ status # lastStatus THEN status ELSE lastStatus

\* Closer.Close as the loops see it: the first error is kept.
OpenCloser == [closed |-> FALSE, err |-> "nil"]
CloserClose(cl, err) == IF cl.closed THEN cl ELSE [closed |-> TRUE, err |-> err]

\* select: the case <-config.Closer.Chan() is ready; the timer is not when
\* the select is entered.
SelectReturns_Never(cl) == FALSE

SelectReturns(cl) == cl.closed

RECURSIVE Reverse(_)
Reverse(s) == IF s = <<>> THEN <<>> ELSE Append(Reverse(Tail(s)), Head(s))

Min(a, b) == IF a < b THEN a ELSE b

\* DescribeStackEvents of the provider: the events newest first, a page of
\* PageSize events from the offset the token names.
EventsPageAt(count, start) ==
    [i \in 1..(Min(start + PageSize, count) - Min(start, count)) |-> count - (start + i - 1)]

\* DescribeChangeSet of the provider: the changes in order, paged likewise.
ChangesPageAt(count, start) ==
    [i \in 1..(Min(start + PageSize, count) - Min(start, count)) |-> start + i]

HasNextPage(count, start) == start + PageSize < count

NoLoop == [kind |-> "none"]
StackLoop == [lastStatus |-> <<>>]
EventsLoop(phase, last) ==
    [phase |-> phase, last |-> last, token |-> 0, buf |-> <<>>, todo |-> <<>>,
     found |-> FALSE]
ChangeSetLoop ==
    [token |-> 0, has |-> FALSE, changes |-> <<>>, Status |-> "none", found |-> TRUE]

NoHist ==
    [polls |-> 0, late |-> 0, closeArg |-> "none", atInit |-> 0, startClosed |-> FALSE]

WtIdle ==
    /\ wKind = "none"
    /\ wConfig = [CloseOnEnd |-> FALSE, CloseOnError |-> FALSE, fn |-> "any"]
    /\ wCloser = OpenCloser
    /\ wPc = "idle"
    /\ wLoop = NoLoop
    /\ wRemote = 0
    /\ wLog = <<>>
    /\ wEmits = <<>>
    /\ wRet = "none"
    /\ wHist = NoHist

\* update returns err.
UpdateReturns(err) ==
    /\ wRet' = err
    /\ wPc' = "returned"

Logged(arg, out) ==
    Append(wLog, [poll |-> wHist.polls, arg |-> arg, again |-> out.retry, err |-> out.err])

\* Stack.update, one turn of the loop: read the stack, call the callback,
\* and leave the loop on an error or when the callback asks for no more.
StackPoll ==
    /\ wKind = "stack"
    /\ wPc = "poll"
    /\ \/ /\ UpdateReturns("cannot read stack")
          /\ UNCHANGED <<wLoop, wLog, wEmits>>
       \/ \E status \in WaitStatuses : \E out \in StackOutcomes(wConfig.fn, status) :
             /\ wLog' = Logged(status, out)
             /\ IF wConfig.fn \in TrackFns
                THEN /\ wEmits' = TrackEmits(wEmits, wLoop.lastStatus, status, out.retry)
                     /\ wLoop' = [wLoop EXCEPT !.lastStatus =
                                     TrackLastStatus(@, status, out.retry)]
                ELSE UNCHANGED <<wEmits, wLoop>>
             /\ IF out.err # "nil" THEN UpdateReturns(out.err)
                ELSE IF ~out.retry THEN UpdateReturns("nil")
                ELSE wPc' = "select" /\ UNCHANGED wRet
    /\ UNCHANGED <<wKind, wConfig, wCloser, wRemote, wHist, notWt>>

\* getEvents, one DescribeStackEvents call; after the last page the list is
\* reversed.  NewStackEvents keeps the id of the newest event, update starts
\* to walk the list.  When the call fails in NewStackEvents there is no
\* stream and no Wait.
EventsPage ==
    /\ wKind = "events"
    /\ wPc = "page"
    /\ \/ /\ IF wLoop.phase = "new"
             THEN wPc' = "done" /\ UNCHANGED wRet
             ELSE UpdateReturns("cannot read events")
          /\ UNCHANGED <<wLoop, wHist>>
       \/ LET buf == wLoop.buf \o EventsPageAt(wRemote, wLoop.token)
              events == Reverse(buf) IN
          /\ UNCHANGED wRet
          /\ IF HasNextPage(wRemote, wLoop.token)
             THEN /\ wLoop' = [wLoop EXCEPT !.buf = buf, !.token = @ + PageSize]
                  /\ UNCHANGED <<wPc, wHist>>
             ELSE IF wLoop.phase = "new"
             THEN /\ wLoop' = EventsLoop("update",
                                  IF events = <<>> THEN 0 ELSE events[Len(events)])
                  /\ wHist' = [wHist EXCEPT !.polls = 1]
                  /\ UNCHANGED wPc
             ELSE /\ wLoop' = [wLoop EXCEPT !.buf = <<>>, !.token = 0,
                                            !.todo = events, !.found = (wLoop.last = 0)]
                  /\ wPc' = "deliver"
                  /\ UNCHANGED wHist
    /\ UNCHANGED <<wKind, wConfig, wCloser, wRemote, wLog, wEmits, notWt>>

\* StackEvents.update, the next event of the list: it is given to the
\* callback once the last seen event has been passed.
EventsDeliver ==
    /\ wKind = "events"
    /\ wPc = "deliver"
    /\ IF wLoop.todo = <<>>
       THEN wPc' = "select" /\ UNCHANGED <<wLoop, wLog, wRet>>
       ELSE LET e == Head(wLoop.todo) IN
            IF wLoop.found
            THEN \E out \in AnyOutcomes :
                   /\ wLog' = Logged(e, out)
                   /\ IF out.err # "nil"
                      THEN UpdateReturns(out.err) /\ UNCHANGED wLoop
                      ELSE IF ~out.retry
                      THEN UpdateReturns("nil") /\ UNCHANGED wLoop
                      ELSE /\ wLoop' = [wLoop EXCEPT !.last = e, !.todo = Tail(@)]
                           /\ UNCHANGED <<wPc, wRet>>
            ELSE /\ wLoop' = [wLoop EXCEPT !.found = (wLoop.last = e), !.todo = Tail(@)]
                 /\ UNCHANGED <<wPc, wLog, wRet>>
    /\ UNCHANGED <<wKind, wConfig, wCloser, wRemote, wEmits, wHist, notWt>>

\* The stack gets a new event.
AddStackEvents ==
    /\ wKind = "events"
    /\ wPc \notin {"done", "returned"}
    /\ wRemote < MaxEvents
    /\ wRemote' = wRemote + 1
    /\ UNCHANGED <<wKind, wConfig, wCloser, wPc, wLoop, wLog, wEmits, wRet, wHist, notWt>>

\* The Status of newChangeSetData: of the described change set, or of the
\* snapshot made for one the provider does not find.
ChangeSetStatusNotFound == "CHANGE_SET_NOT_FOUND"
SnapshotStatus(found) == IF found THEN "CREATE_COMPLETE" ELSE ChangeSetStatusNotFound

\* ChangeSet.update, one turn of the loop: DescribeChangeSet for the page
\* the token names, the changes of the page appended to the data the loop
\* holds, or the new snapshot when it holds none, and the callback.  found
\* is the answer of the provider; csData stays in the loop's variables, as
\* cs.data is set from it when the loop is left.
ChangeSetPage ==
    /\ wKind = "changeset"
    /\ wPc = "page"
    /\ \/ /\ UpdateReturns("cannot describe change set")
          /\ UNCHANGED <<wLoop, wLog>>
       \/ \E found \in BOOLEAN : \E out \in AnyOutcomes :
            LET page == IF found THEN ChangesPageAt(wRemote, wLoop.token) ELSE <<>>
                data == IF wLoop.has THEN wLoop.changes \o page ELSE page
                next == found /\ HasNextPage(wRemote, wLoop.token)
                csData == [wLoop EXCEPT !.has = TRUE, !.changes = data, !.found = found,
                                        !.Status = IF wLoop.has THEN @
                                                   ELSE SnapshotStatus(found)] IN
            /\ wLog' = Logged(data, out)
            /\ IF out.err # "nil"
               THEN UpdateReturns(out.err) /\ wLoop' = csData
               ELSE IF out.retry
               THEN /\ wPc' = "select"
                    /\ wLoop' = csData
                    /\ UNCHANGED wRet
               ELSE IF ~next
               THEN UpdateReturns("nil") /\ wLoop' = csData
               ELSE /\ wLoop' = [csData EXCEPT !.token = @ + PageSize]
                    /\ UNCHANGED <<wPc, wRet>>
    /\ UNCHANGED <<wKind, wConfig, wCloser, wRemote, wEmits, wHist, notWt>>

\* ChangeSet.update after the interval: csData = nil and in.NextToken = nil.
Restart_KeepData(loop) == [loop EXCEPT !.token = 0]

Restart(loop) == ChangeSetLoop

\* select, the timer: the next turn starts.
SelectTimer ==
    /\ wPc = "select"
    /\ ~SelectReturns(wCloser)
    /\ wHist.polls < MaxPolls
    /\ wHist' = [wHist EXCEPT !.polls = @ + 1,
                              !.late = IF wCloser.closed THEN @ + 1 ELSE @]
    /\ CASE wKind = "stack" -> wPc' = "poll" /\ UNCHANGED wLoop
         [] wKind = "events" -> wPc' = "page" /\ UNCHANGED wLoop
         [] wKind = "changeset" -> wPc' = "page" /\ wLoop' = Restart(wLoop)
    /\ UNCHANGED <<wKind, wConfig, wCloser, wRemote, wLog, wEmits, wRet, notWt>>

\* select, the closer: update returns nil.
SelectClosed ==
    /\ wPc = "select"
    /\ SelectReturns(wCloser)
    /\ UpdateReturns("nil")
    /\ UNCHANGED <<wKind, wConfig, wCloser, wLoop, wRemote, wLog, wEmits, wHist, notWt>>

\* The goroutine of Wait after update: Close(err) on an error when
\* CloseOnError is set, else Close(nil) when CloseOnEnd is set.
WaitEnd ==
    /\ wPc = "returned"
    /\ wPc' = "done"
    /\ IF wRet # "nil" /\ wConfig.CloseOnError
       THEN /\ wCloser' = CloserClose(wCloser, wRet)
            /\ wHist' = [wHist EXCEPT !.closeArg = wRet]
       ELSE IF wConfig.CloseOnEnd
       THEN /\ wCloser' = CloserClose(wCloser, "nil")
            /\ wHist' = [wHist EXCEPT !.closeArg = "nil"]
       ELSE UNCHANGED <<wCloser, wHist>>
    /\ UNCHANGED <<wKind, wConfig, wLoop, wRemote, wLog, wEmits, wRet, notWt>>

\* Another goroutine closes the closer of the config.
CloseFromOutside ==
    /\ wKind # "none"
    /\ ~wCloser.closed
    /\ wCloser' = CloserClose(wCloser, "closed outside")
    /\ UNCHANGED <<wKind, wConfig, wPc, wLoop, wRemote, wLog, wEmits, wRet, wHist, notWt>>

-----------------------------------------------------------------------------
(* The nested stack trackers of one stack (pkg/clon/stack.go).  A nested   *)
(* stack is the number of its PhysicalResourceID, 0 for the empty string.  *)

MaxNested == 2

NestedIds == 1..MaxNested
NoTracker == [present |-> FALSE]

\* parentCl.Child(): a child of a closed closer is closed with its error.
ChildOf(parent) == parent

\* The entry verifyNestedStackTracking adds for a nested stack without one.
NewTracker(parent, started) ==
    [present |-> TRUE, closer |-> ChildOf(parent), tracking |-> started]

NoNestedEvent == [id |-> 0, complete |-> FALSE, handled |-> FALSE, had |-> FALSE]

\* The event streams of one tracked stack: the stream of the stack itself,
\* and the stream of every nested stack.
OwnerStream == 0
Streams == {OwnerStream} \cup NestedIds
Unlocked == MaxNested + 1
NoDelivery == [pc |-> "idle", id |-> 0, complete |-> FALSE, ok |-> FALSE, inc |-> 0]

\* What the handler of one stream leaves alone when it runs as one step.
ntSteps == <<ntLock, ntProc, ntChildOf, ntAdds, ntStreams>>

NtIdle ==
    /\ ntMap = [n \in NestedIds |-> NoTracker]
    /\ ntParent = OpenCloser
    /\ ntLast = NoNestedEvent
    /\ ntGone = {}
    /\ ntLock = Unlocked
    /\ ntProc = [g \in Streams |-> NoDelivery]
    /\ ntChildOf = [n \in NestedIds |-> OwnerStream]
    /\ ntAdds = [n \in NestedIds |-> 0]
    /\ ntStreams = [n \in NestedIds |-> 0]

\* verifyNestedStackTracking for an event of type AWS::CloudFormation::Stack:
\* id is its PhysicalResourceID, own says that it names the tracked stack
\* itself, complete that its status ends in _COMPLETE, started that
\* NewStackEvents succeeds.
VerifyNestedStackTracking ==
    \E id \in 0..MaxNested, own \in BOOLEAN, complete \in BOOLEAN, started \in BOOLEAN :
      IF id = 0 \/ own
      THEN /\ ntLast' = [id |-> id, complete |-> complete, handled |-> FALSE, had |-> FALSE]
           /\ UNCHANGED <<ntMap, ntParent, ntGone, ntSteps, notNt>>
      ELSE LET ok == ntMap[id].present IN
           /\ ntLast' = [id |-> id, complete |-> complete, handled |-> TRUE, had |-> ok]
           /\ ntGone' = IF complete /\ ok
                        THEN ntGone \cup {[id |-> id, inc |-> ntAdds[id],
                                           tracking |-> ntMap[id].tracking,
                                           closer |-> CloserClose(ntMap[id].closer, "nil")]}
                        ELSE ntGone
           /\ ntMap' = IF ok
                       THEN IF complete THEN [ntMap EXCEPT ![id] = NoTracker] ELSE ntMap
                       ELSE [ntMap EXCEPT ![id] = NewTracker(ntParent, started)]
           /\ UNCHANGED <<ntParent, ntSteps, notNt>>

\* The closer of the tracked stack is closed, and with it the trackers that
\* are its children.
ParentClose ==
    /\ ~ntParent.closed
    /\ \E err \in {"nil", "failed"} :
         /\ ntParent' = CloserClose(ntParent, err)
         /\ ntMap' = [n \in NestedIds |->
                        IF ntMap[n].present
                        THEN [ntMap[n] EXCEPT !.closer = CloserClose(@, err)]
                        ELSE ntMap[n]]
    /\ UNCHANGED <<ntLast, ntGone, ntSteps, notNt>>

-----------------------------------------------------------------------------
(* The same handler step by step, for streams that run at once.  Every     *)
(* stream is a goroutine of its own; its callback calls                    *)
(* verifyNestedStackTracking of the tracked stack with the closer of the   *)
(* stream.  A stream is named by its stack and by the number of the        *)
(* tracker it was started for.                                             *)

MaxStreams == 2

\* The streams of g that were started: the one of the tracker in the map and
\* those of the trackers removed from it.
StartedStreams(g) ==
    IF g = OwnerStream THEN {0}
    ELSE (IF ntMap[g].present /\ ntMap[g].tracking THEN {ntAdds[g]} ELSE {})
         \cup {r.inc : r \in {x \in ntGone : x.id = g /\ x.tracking}}

\* The closer a started stream was given, as it is now.
StreamCloser(g, inc) ==
    IF g = OwnerStream THEN ntParent
    ELSE IF ntMap[g].present /\ inc = ntAdds[g] THEN ntMap[g].closer
    ELSE (CHOOSE r \in ntGone : r.id = g /\ r.inc = inc).closer

\* sync.Mutex.Lock returns when no goroutine holds the mutex.
MutexFree_Always(holder) == TRUE

MutexFree(holder) == holder = Unlocked

\* The trackers whose closers are closed when the closers of S are: their
\* children, and the children of those.
TrackersUnder_All(S, n) == NestedIds

RECURSIVE TrackersUnder(_, _)
TrackersUnder(S, n) ==
    IF n = 0 THEN S
    ELSE TrackersUnder(S \cup {t \in NestedIds : ntMap[t].present /\ ntChildOf[t] \in S},
                       n - 1)

\* The callback of a stream is given an event of type
\* AWS::CloudFormation::Stack: the test of the first lines, then the wait
\* for the mutex.
NestedCallback(g) ==
    /\ ntProc[g].pc = "idle"
    /\ \E inc \in StartedStreams(g), id \in 0..MaxNested, own \in BOOLEAN,
          complete \in BOOLEAN :
         /\ id # 0 => ntAdds[id] < MaxStreams
         /\ ntProc' = [ntProc EXCEPT ![g] =
                          IF id = 0 \/ own THEN NoDelivery
                          ELSE [pc |-> "lock", id |-> id, complete |-> complete,
                                ok |-> FALSE, inc |-> inc]]
    /\ UNCHANGED <<ntMap, ntParent, ntLast, ntGone, ntLock, ntChildOf, ntAdds, ntStreams,
                   notNt>>

\* nestedStackLock.Lock(), and the read of the map.
NestedLock(g) ==
    /\ ntProc[g].pc = "lock"
    /\ MutexFree(ntLock)
    /\ ntLock' = g
    /\ ntProc' = [ntProc EXCEPT ![g].pc = "locked", ![g].ok = ntMap[ntProc[g].id].present]
    /\ UNCHANGED <<ntMap, ntParent, ntLast, ntGone, ntChildOf, ntAdds, ntStreams, notNt>>

\* The rest of the handler and the deferred Unlock: a completion event
\* closes and deletes the tracker that was read, and an event that read no
\* tracker stores a child of the stream's closer and starts a stream.
NestedUpdate(g) ==
    /\ ntProc[g].pc = "locked"
    /\ LET p == ntProc[g]
           id == p.id
           removes == p.complete /\ p.ok /\ ntMap[id].present
           adds == ~p.ok
           under == TrackersUnder({id}, MaxNested)
           closed == [t \in NestedIds |->
                        IF t \in under /\ ntMap[t].present
                        THEN [ntMap[t] EXCEPT !.closer = CloserClose(@, "nil")]
                        ELSE ntMap[t]]
           left == IF removes THEN [closed EXCEPT ![id] = NoTracker] ELSE ntMap
       IN
       \E started \in (IF adds THEN BOOLEAN ELSE {FALSE}) :
          /\ ntGone' = IF removes
                       THEN ntGone \cup {[id |-> id, inc |-> ntAdds[id],
                                          tracking |-> ntMap[id].tracking,
                                          closer |-> closed[id].closer]}
                       ELSE ntGone
          /\ ntMap' = IF adds
                      THEN [left EXCEPT ![id] = NewTracker(StreamCloser(g, p.inc), started)]
                      ELSE left
          /\ ntChildOf' = IF adds THEN [ntChildOf EXCEPT ![id] = g] ELSE ntChildOf
          /\ ntAdds' = IF adds THEN [ntAdds EXCEPT ![id] = @ + 1] ELSE ntAdds
          /\ ntStreams' = IF adds /\ started THEN [ntStreams EXCEPT ![id] = @ + 1]
                          ELSE ntStreams
          /\ ntLock' = Unlocked
          /\ ntProc' = [ntProc EXCEPT ![g] = NoDelivery]
    /\ UNCHANGED <<ntParent, ntLast, notNt>>

-----------------------------------------------------------------------------

(* s3file.Write against one bucket.  Strings that are taken apart or put   *)
(* together (keys, paths, hashes, ETags) are sequences of their pieces.    *)

MaxUploads == 2

Prefixes == {<<>>, <<"p">>}
ConfigKeys == {<<>>, <<"k">>}
Sources == {<<>>, <<"dir", "k">>}
NoContent == "nil"
Contents == {"a", "bb"}
ContentTypes == {"", "text/plain"}
MaxSizes == {0, 1}
DefaultContentType == "application/octet-stream"

\* The number of bytes a reader yields.
Size(content) == IF content = "bb" THEN 2 ELSE 1

\* The content of the local file a Source names.
FileContent(source) == "bb"

\* filepath.Base: the last element of the path.
Base(path) == <<path[Len(path)]>>

\* hex.EncodeToString(md5(content)): a digest that tells the contents apart.
Md5Hex(content) == <<"md5", content>>

\* The ETag the provider gives an object stored by one PutObject.
S3ETag(body) == <<"\"">> \o Md5Hex(body) \o <<"\"">>

\* The configurations Write is called with: content under a key, with and
\* without a prefix; a source file with and without a key; no bucket.
WriteConfigs ==
    [bucket : {"bucket"}, prefix : Prefixes, key : {<<"k">>}, source : {<<>>},
     content : Contents, contentType : ContentTypes, maxSize : MaxSizes]
    \cup
    [bucket : {"bucket"}, prefix : {<<>>}, key : ConfigKeys, source : Sources,
     content : {NoContent}, contentType : {""}, maxSize : {0}]
    \cup
    [bucket : {""}, prefix : {<<>>}, key : {<<"k">>}, source : {<<>>},
     content : {"a"}, contentType : {""}, maxSize : {0}]

\* File.setLocation: the error, and the key of the object.
LocationError(c) ==
    IF c.bucket = "" THEN "bucket is not set"
    ELSE IF c.key = <<>> /\ c.source = <<>> THEN "neither key nor source are set"
    ELSE "nil"

LocationKey(c) ==
    c.prefix \o (IF c.key = <<>> THEN Base(c.source) ELSE c.key)

ObjectKeys == {<<"k">>, <<"p", "k">>}

Absent == [exists |-> FALSE, etag |-> <<>>, contentType |-> "", versionId |-> 0]

\* Objects that are in the bucket before the first Write: none, one stored
\* by a PutObject of content "a", one whose ETag is no MD5 (multipart upload).
InitialObjects ==
    {Absent,
     [exists |-> TRUE, etag |-> S3ETag("a"),
      contentType |-> DefaultContentType, versionId |-> 0],
     [exists |-> TRUE, etag |-> <<"\"", "parts-2", "\"">>,
      contentType |-> "text/plain", versionId |-> 0]}

NoWrite ==
    [called |-> FALSE, err |-> "nil", key |-> <<>>, content |-> NoContent,
     contentType |-> "", hash |-> <<>>, head |-> "none", seen |-> Absent,
     uploads |-> 0, versionId |-> 0]

S3Idle ==
    /\ s3Objects = [k \in ObjectKeys |-> Absent]
    /\ s3NextVersion = 1
    /\ s3Log = [prev |-> NoWrite, last |-> NoWrite]

\* fmt.Sprintf(`"%s"`, f.Hash): the ETag Write expects of unchanged content.
QuotedHash_Bare(hash) == hash
QuotedHash(hash) == <<"\"">> \o hash \o <<"\"">>

\* The branch "file is not changed" of Write.
NotChanged(prev, contentType, hash) ==
    /\ prev.contentType = contentType
    /\ prev.etag = QuotedHash(hash)

\* The call that fails in one run of Write, if any: os.Open, HeadObject (by
\* another error than 404) or PutObject.
Failures == {"none", "open", "head", "put"}

\* What one call Write(conn, c) returns and does.
WriteResult(c, fails) ==
    LET openOk == fails # "open"
        headOk == fails # "head"
        putOk == fails # "put"
        content == IF c.content = NoContent THEN FileContent(c.source) ELSE c.content
        key == LocationKey(c)
        hash == Md5Hex(content)
        contentType == IF c.contentType = "" THEN DefaultContentType ELSE c.contentType
        prev == s3Objects[key]
        early == [NoWrite EXCEPT !.called = TRUE]
        hashed == [early EXCEPT !.key = key, !.content = content,
                                !.contentType = contentType, !.hash = hash]
    IN  IF LocationError(c) # "nil"
        THEN [early EXCEPT !.err = "s3 write failed"]
        ELSE IF c.content = NoContent /\ c.source = <<>>
        THEN [early EXCEPT !.err = "neither content nor source are set",
                           !.key = key]
        ELSE IF c.content = NoContent /\ ~openOk
        THEN [early EXCEPT !.err = "cannot open file", !.key = key]
        ELSE IF c.maxSize # 0 /\ Size(content) > c.maxSize
        THEN [early EXCEPT !.err = "file is too big", !.key = key]
        ELSE IF ~headOk
        THEN [hashed EXCEPT !.err = "cannot read previous file", !.head = "error"]
        ELSE IF prev.exists /\ NotChanged(prev, contentType, hash)
        THEN [hashed EXCEPT !.head = "found", !.seen = prev,
                            !.versionId = prev.versionId]
        ELSE LET headed == [hashed EXCEPT
                               !.head = IF prev.exists THEN "found" ELSE "404",
                               !.seen = prev, !.uploads = 1]
             IN  IF ~putOk
                 THEN [headed EXCEPT !.err = "s3 upload failed"]
                 ELSE [headed EXCEPT !.versionId = s3NextVersion]

Write(c, fails) ==
    LET w == WriteResult(c, fails)
        stored == w.uploads = 1 /\ w.err = "nil"
    IN  /\ w.uploads = 1 => s3NextVersion <= MaxUploads
        /\ s3Objects' = IF stored
                        THEN [s3Objects EXCEPT ![w.key] =
                                 [exists |-> TRUE, etag |-> S3ETag(w.content),
                                  contentType |-> w.contentType,
                                  versionId |-> s3NextVersion]]
                        ELSE s3Objects
        /\ s3NextVersion' = IF stored THEN s3NextVersion + 1 ELSE s3NextVersion
        /\ s3Log' = [prev |-> s3Log.last, last |-> w]
        /\ UNCHANGED notS3

-----------------------------------------------------------------------------

(* SpecExecute: any sequence of StackManager.Execute(name, planID) calls    *)
(* on a manager after construction.                                        *)

ExecuteInit ==
    /\ SmFresh
    /\ flags = NoFlags
    /\ stackStatus = [s \in Stacks |-> StackStatusNotFound]
    /\ callStack = <<>>
    /\ NpIdle
    /\ ClIdle
    /\ GrIdle
    /\ WtIdle
    /\ NtIdle
    /\ S3Idle /\ TkIdle

MaxExecutes == 2

\* A caller of the manager calls Execute(name, planID), until ExecuteChangeSet
\* was issued MaxExecutes times.
CallExecute ==
    /\ callStack = <<>>
    /\ Cardinality(executed) < MaxExecutes
    /\ \E name \in StackNames :
         callStack' = <<ExecuteFrame(name, <<name, 1>>)>>
    /\ UNCHANGED <<updated, stackStatus, ret, executed, notExecute, notSm>>

ExecuteNext == CallExecute \/ ExecuteNewChangeSet \/ ExecuteChangeSet \/ ExecutePoll

SpecExecute == ExecuteInit /\ [][ExecuteNext]_vars

\* Execute has returned for a stack of the configuration.
ExecuteReturned ==
    /\ callStack = <<>>
    /\ ret.fn = "Execute"
    /\ ret.name \in Stacks

\* C2: when Execute(name, planID) has returned, the node's updated flag is
\* true exactly when Execute returned no error; an Execute that returned an
\* error leaves the flag false.
C2_UpdatedIffSuccess ==
    ExecuteReturned => (updated[ret.name] <=> ret.err = "nil")

\* C7: no ExecuteChangeSet is issued for a node while its updated flag is
\* true, whatever sequence of Execute calls the manager is given.
C7_NoReExecution == \A e \in executed : ~e.wasUpdated

\* A status that names a rollback: one of its words is ROLLBACK.
NamesRollback(status) == \E i \in 1..Len(status) : status[i] = "ROLLBACK"

\* C8: Execute returns no error only when the last status polled ends in
\* _COMPLETE and is no rollback status; every rollback outcome
\* (ROLLBACK_COMPLETE as well as UPDATE_ROLLBACK_COMPLETE) and every
\* *_FAILED status makes it return an error.
C8_ExecuteAcceptance ==
    (ExecuteReturned /\ ret.err = "nil") =>
        /\ IsComplete(stackStatus[ret.name])
        /\ ~NamesRollback(stackStatus[ret.name])
        /\ ~IsFailed(stackStatus[ret.name])

\* C40: the step of Execute that issues the provider's ExecuteChangeSet is
\* taken for a change set that DescribeChangeSet reported with
\* ExecutionStatus AVAILABLE, and Execute polls the stack for such a change
\* set only.
C40_ExecuteOnlyExecutable ==
    /\ [][Running("Execute", "ExecuteChangeSet") /\ callStack' # callStack =>
             Top.cs = "AVAILABLE"]_vars
    /\ [](Running("Execute", "poll") => Top.cs = "AVAILABLE")

-----------------------------------------------------------------------------
(* SpecNewPlan: one call of newPlan on arguments drawn from bounded sets.   *)

MaxChanges == 2

DetailValues ==
    [ChangeSource : {"Automatic", "DirectModification"},
     Evaluation : {"Dynamic", "Static"},
     Attribute : {"Properties", "Tags"},
     RequiresRecreation : {"Never", "Always"}]

OtherDetail ==
    [ChangeSource |-> "DirectModification", Evaluation |-> "Static",
     Attribute |-> "Tags", RequiresRecreation |-> "Always"]

\* The Details of one resource change: none, any single detail, or two.
DetailLists ==
    {<<>>} \cup {<<d>> : d \in DetailValues}
           \cup {<<NestedDetail, d>> : d \in {NestedDetail, OtherDetail}}

ChangeValues == [Details : DetailLists]

ChangeLists == UNION {[1..n -> ChangeValues] : n \in 0..MaxChanges}

ParamKeys == {"p"}
ParamValues == {"", "x", "y"}
ParamMaps == UNION {[D -> ParamValues] : D \in SUBSET ParamKeys}

ValidChangeSetID ==
    <<"arn", "aws", "cloudformation", "region", "account", <<"changeSet", "cs", "uuid">> >>
InvalidChangeSetID == <<"cs">>

NewPlanInputs ==
    [cs : [ID : {ValidChangeSetID, InvalidChangeSetID},
           Changes : ChangeLists,
           Parameters : ParamMaps],
     stack : [Parameters : ParamMaps],
     ignoreNestedUpdates : BOOLEAN]

NpInit ==
    /\ npInput \in NewPlanInputs /\ npPlan = NoPlan
    /\ SmIdle /\ ClIdle /\ GrIdle /\ WtIdle /\ NtIdle /\ S3Idle /\ TkIdle

\* StackManager.Plan / GetPlan build the plan with the three-argument newPlan.
CallNewPlan ==
    /\ npPlan = NoPlan
    /\ npPlan' = [by |-> "newPlan"] @@
                  newPlan(npInput.cs, npInput.stack, npInput.ignoreNestedUpdates)
    /\ UNCHANGED <<npInput, notNp>>

CallNewPlanTwoArg ==
    /\ npPlan = NoPlan
    /\ npPlan' = [by |-> "newPlanTwoArg"] @@ newPlanTwoArg(npInput.cs, npInput.stack)
    /\ UNCHANGED <<npInput, notNp>>

NpNext == CallNewPlan \/ CallNewPlanTwoArg

SpecNewPlan == NpInit /\ [][NpNext]_vars

\* The plan StackManager.Plan builds: newPlan returned without error.
PlanBuilt == npPlan # NoPlan /\ npPlan.by = "newPlan" /\ npPlan.err = "nil"

\* A parameter value differs between the deployed stack and the change set.
ParameterDiffers ==
    \E k \in ParamKeys :
        (IF k \in DOMAIN npInput.stack.Parameters THEN npInput.stack.Parameters[k] ELSE "")
        # (IF k \in DOMAIN npInput.cs.Parameters THEN npInput.cs.Parameters[k] ELSE "")

\* C3: with IgnoreNestedUpdates = false, the plan built from a change set has
\* HasChange = true if and only if some parameter value differs between the
\* deployed stack and the change set or the change set lists a resource change.
C3_HasChangeWithoutFilter ==
    (PlanBuilt /\ ~npInput.ignoreNestedUpdates)
        => (npPlan.HasChange <=> (ParameterDiffers \/ Len(npInput.cs.Changes) > 0))

\* A change with exactly one detail {Automatic, Dynamic, Properties, Never}.
MatchesNestedTemplate(c) == c.Details = <<NestedDetail>>

\* C4: with IgnoreNestedUpdates = true, HasChange is false when every change of
\* the list (of any length) has exactly the one automatic nested-update detail,
\* and true as soon as one change does not match.
C4_NestedStackFilter ==
    (PlanBuilt /\ npInput.ignoreNestedUpdates)
        => (npPlan.HasChange <=>
                \E i \in 1..Len(npInput.cs.Changes) :
                    ~MatchesNestedTemplate(npInput.cs.Changes[i]))

\* C4 witness: a plan over MaxChanges matching changes (and a changed
\* parameter) that has no change.
C4_Witness ==
    /\ PlanBuilt /\ npInput.ignoreNestedUpdates
    /\ Len(npInput.cs.Changes) = MaxChanges
    /\ \A i \in 1..MaxChanges : MatchesNestedTemplate(npInput.cs.Changes[i])
    /\ ParameterDiffers
    /\ ~npPlan.HasChange

-----------------------------------------------------------------------------
(* SpecCloser: one goroutine making any sequence of calls on the closers.  *)

CloserInit == ClIdle /\ NpIdle /\ SmIdle /\ GrIdle /\ WtIdle /\ NtIdle /\ S3Idle /\ TkIdle

CloserNext ==
    \/ CallNew("main") \/ CallClose("main") \/ CallAddChild("main")
    \/ CallChild("main") \/ CallWait("main")
    \/ CloseOnce("main") \/ CloseLock("main") \/ ClosePropagate("main")
    \/ CloseReturn("main")
    \/ AddChildLock("main") \/ AddChildUnlock("main") \/ WaitReturn("main")

SpecCloser == CloserInit /\ [][CloserNext]_vars

\* The Close that goroutine main called has returned.
CloseReturned ==
    /\ clStack["main"] = <<>>
    /\ clCall["main"].fn = "Close"

\* C10: when Close(err) on a closer has returned, every closer that was an
\* open descendant of it when Close was called (a child, or a child of a
\* descendant) is closed and holds err, the error its Wait returns.
C10_ClosePropagates ==
    CloseReturned =>
        \A n \in clCall["main"].open :
            clClosed[n] /\ clErr[n] = clCall["main"].err

\* C10 witness: a Close with a non-nil error has returned that found an open
\* child and an open child of that child.
C10_Witness ==
    /\ CloseReturned
    /\ clCall["main"].err = "e1"
    /\ \E n, m \in clCall["main"].open :
          /\ n \in clChildren[clCall["main"].c]
          /\ m \in clChildren[n]
          /\ m \notin clChildren[clCall["main"].c]
          /\ clErr[m] = "e1"

\* The goroutine waits, inside c.Close, for the Once of c that it holds
\* itself: the Close never returns.
StuckInOwnOnce(g, c) ==
    /\ ClRunning(g, "Close", "once")
    /\ ClTop(g).c = c
    /\ ~OnceDone(c)
    /\ clOnce[c].m = g

\* C12: adding a closer as its own child is a no-op, so that a Close of a
\* closer that was added to itself returns: the goroutine is never left
\* waiting, inside that Close, for the closer's own Once.
C12_SelfChildCloseReturns ==
    \A c \in Made : c \in clChildren[c] => ~StuckInOwnOnce("main", c)

\* The AddChild or Child that goroutine main called has returned.
AddReturned ==
    /\ clStack["main"] = <<>>
    /\ clCall["main"].fn \in {"AddChild", "Child"}

\* A call of AddChild or Child by main is in progress for a closer the
\* parent has among its children.
AddingAChild ==
    /\ clStack["main"] # <<>>
    /\ clStack["main"][1].fn = "AddChild"
    /\ clStack["main"][1].child \in clChildren[clStack["main"][1].c]

\* C14: when AddChild or Child on a parent that was closed has returned, the
\* closer that was added is closed, and it holds the parent's error if it
\* was open before; while a closer that is already a child is added, no
\* closer's closed flag, error or children change.
C14_AddToClosedParent ==
    /\ [](AddReturned /\ clCall["main"].closedParent =>
            /\ clClosed[clCall["main"].child]
            /\ clCall["main"].openChild =>
                 clErr[clCall["main"].child] = clErr[clCall["main"].c])
    /\ [][AddingAChild => UNCHANGED <<clMade, clClosed, clErr, clChildren>>]_vars

\* C14 witness: an AddChild of an open closer to a parent closed with an
\* error has returned, and the parent has another child it was given twice.
C14_Witness ==
    /\ AddReturned
    /\ clCall["main"].fn = "AddChild"
    /\ clCall["main"].closedParent
    /\ clCall["main"].openChild
    /\ clErr[clCall["main"].c] = "e1"
    /\ clChildren[clCall["main"].c] # {}

-----------------------------------------------------------------------------
(* SpecCloserPar: two goroutines making calls on the closers at once.  An  *)
(* open closer is given children made after it, which keeps the child      *)
(* relation acyclic; one of the goroutines also waits.                     *)

ParGoroutines == {"other", "third"}

\* An AddChild that cannot close a circle: the parent was made before the
\* child, or the parent is closed and takes no child any more.
AddKeepsAcyclic(c, child) == c < child \/ OnceDone(c)

ParCall(g) ==
    \/ CallNew(g)
    \/ CallClose(g)
    \/ CallAddChild(g) /\ AddKeepsAcyclic(clStack'[g][1].c, clStack'[g][1].child)
    \/ CallChild(g)
    \/ CallWait(g) /\ g = "other"

ParStep(g) ==
    \/ CloseOnce(g) \/ CloseLock(g) \/ ClosePropagate(g) \/ CloseReturn(g)
    \/ AddChildLock(g) \/ AddChildUnlock(g) \/ WaitReturn(g)

CloserParNext == \E g \in ParGoroutines : ParCall(g) \/ ParStep(g)

SpecCloserPar == CloserInit /\ [][CloserParNext]_vars

\* C11: the error of a closer that is closed never changes and the closer
\* stays closed, whatever Close arrives later, from a caller or through
\* propagation; the error it got when it was closed is the argument of the
\* Close that closed it; and a Wait returns the error the closer holds.
C11_FirstErrorRetained ==
    [][/\ \A c \in Closers :
            clClosed[c] => clClosed'[c] /\ clErr'[c] = clErr[c]
       /\ \A c \in Closers :
            ~clClosed[c] /\ clClosed'[c] =>
                \E g \in Goroutines :
                    /\ ClRunning(g, "Close", "lock")
                    /\ ClTop(g).c = c
                    /\ clErr'[c] = ClTop(g).err
       /\ \A g \in Goroutines :
            ClRunning(g, "Wait", "recv") /\ clStack'[g] = <<>> =>
                clRet'[g] = clErr[ClTop(g).c]]_vars

\* C11 witness: a child was closed with e2 and its parent later with e1, a
\* Wait has returned e2, and a further Close of the child, with nil, has
\* arrived.
C11_Witness ==
    \E p, ch \in Made :
        /\ ch \in clChildren[p]
        /\ OnceDone(p) /\ OnceDone(ch)
        /\ clErr[p] = "e1" /\ clErr[ch] = "e2"
        /\ clRet["other"] = "e2"
        /\ ClRunning("third", "Close", "once")
        /\ ClTop("third").c = ch
        /\ ClTop("third").err = "nil"

\* The goroutine that holds the mutex the innermost call of g waits for,
\* NoGoroutine when the call waits for no mutex.
Blocker(g) ==
    IF clStack[g] = <<>> THEN NoGoroutine
    ELSE LET f == ClTop(g) IN
         CASE f.fn = "Close" /\ f.pc = "once" ->
                  IF OnceDone(f.c) THEN NoGoroutine ELSE clOnce[f.c].m
           [] f.fn = "Close" /\ f.pc = "lock" -> clLock[f.c]
           [] f.fn = "AddChild" /\ f.pc = "lock" -> clLock[f.c]
           [] f.fn = "Wait" /\ clClosed[f.c] -> clLock[f.c]
           [] OTHER -> NoGoroutine

RECURSIVE BlockerAfter(_, _)
BlockerAfter(g, n) ==
    IF n = 0 \/ g = NoGoroutine THEN g ELSE BlockerAfter(Blocker(g), n - 1)

\* Some goroutines wait for each other's mutexes in a circle.
Deadlocked ==
    \E g \in Goroutines, n \in 1..Cardinality(Goroutines) : BlockerAfter(g, n) = g

Acyclic(kids) == \A c \in Closers : c \notin Descendants(kids, c)

AllReturned == \A g \in Goroutines : clStack[g] = <<>>

\* C13: while the child relation is acyclic, no calls wait for each other
\* in a circle, and when every call has returned each child of a closed
\* closer is closed.
C13_NoDeadlockNoLostChild ==
    Acyclic(clChildren) =>
        /\ ~Deadlocked
        /\ AllReturned =>
             \A c \in Made : clClosed[c] => \A ch \in clChildren[c] : clClosed[ch]

\* C13 witness: an AddChild waits for the lock of a closer whose Close the
\* other goroutine is propagating, for a child that has another parent.
C13_Witness ==
    /\ ClRunning("third", "AddChild", "lock")
    /\ ClRunning("other", "Close", "propagate")
    /\ clLock[ClTop("third").c] = "other"
    /\ \E p \in Made \ {ClTop("third").c} : ClTop("third").child \in clChildren[p]


\* C37: a Wait on a closer returns only when the Close of that closer has
\* finished propagating: at the step at which Wait returns, every child the
\* closer has, and every descendant of those, is closed.
C37_WaitAfterPropagation ==
    [][\A g \in Goroutines :
          ClRunning(g, "Wait", "recv") /\ clStack'[g] = <<>> =>
              \A n \in Descendants(clChildren, ClTop(g).c) : clClosed[n]]_vars

\* C37 witness: a Wait is about to return e1 while no other call runs,
\* after the Close of the other goroutine closed the closer, its child and
\* the child of that child with e1.
C37_Witness ==
    /\ ClRunning("other", "Wait", "recv")
    /\ clStack["third"] = <<>>
    /\ LET c == ClTop("other").c IN
         /\ clClosed[c] /\ clErr[c] = "e1"
         /\ \E ch \in clChildren[c] : \E m \in clChildren[ch] :
               /\ m \notin clChildren[c]
               /\ clErr[ch] = "e1" /\ clErr[m] = "e1"

-----------------------------------------------------------------------------
(* SpecGraph: any sequence of helper calls between the stacks.             *)

GraphInit == GrIdle /\ NpIdle /\ SmIdle /\ ClIdle /\ WtIdle /\ NtIdle /\ S3Idle /\ TkIdle

GraphNext == GraphHelperCall

SpecGraph == GraphInit /\ [][GraphNext]_vars

\* The stacks reached from t along child sets, in one step or more.
RECURSIVE GraphReach(_, _, _)
GraphReach(kids, S, n) ==
    IF n = 0 THEN S
    ELSE GraphReach(kids, S \cup UNION {kids[x] : x \in S}, n - 1)

GraphDescendants(kids, t) == GraphReach(kids, kids[t], Cardinality(DOMAIN kids))

\* chain is name -> ... -> child -> name, each stack in the child set of the
\* one after it, the last step being the edge the call asked for.
CompleteChain(kids, child, name, chain) ==
    /\ Len(chain) >= 3
    /\ chain[1] = name
    /\ chain[Len(chain)] = name
    /\ chain[Len(chain) - 1] = child
    /\ \A i \in 1..(Len(chain) - 2) : chain[i] \in kids[chain[i + 1]]

\* The last helper call asked for an edge that closes a cycle: name already
\* was a descendant of child.
ClosesCycle ==
    /\ grLast.err # "none"
    /\ grLast.name \in GraphStacks
    /\ grLast.name \in GraphDescendants(grLast.before, grLast.child)

\* C1: after any sequence of helper calls no stack is its own descendant,
\* and a call whose edge would close a cycle returned the cyclic-dependency
\* error with the complete chain and added no edge.
C1_CycleFreedom ==
    /\ \A t \in GraphStacks : t \notin GraphDescendants(grChildren, t)
    /\ ClosesCycle =>
          /\ grLast.err = "cyclic dependency"
          /\ CompleteChain(grLast.before, grLast.child, grLast.name, grLast.chain)
          /\ grChildren = grLast.before

\* C1 witness: a call was refused whose chain passes through a third stack.
C1_Witness ==
    /\ ClosesCycle
    /\ grLast.err = "cyclic dependency"
    /\ Len(grLast.chain) = 4
    /\ grLast.chain[2] \notin {grLast.child, grLast.name}

-----------------------------------------------------------------------------
(* SpecDeploy: one run of `deploy <name>` or of `init`, with any flags, any *)
(* configuration of the stacks, and any answers of the provider and user.  *)

DeployInit ==
    /\ SmFresh
    /\ flags \in Flags
    /\ stackStatus = [s \in Stacks |-> StackStatusNotFound]
    /\ callStack \in {<<DeployFrame(name)>> : name \in StackNames} \cup {<<InitFrame>>}
    /\ NpIdle
    /\ ClIdle
    /\ GrIdle
    /\ WtIdle
    /\ NtIdle
    /\ S3Idle /\ TkIdle

DeployNext ==
    \/ Deploy \/ HandlerInit \/ DeployStack \/ Confirm \/ VerifyStack
    \/ PlanGetStack \/ PlanRender \/ HelperReturns \/ PlanCreateChangeSet \/ PlanWait
    \/ ExecuteNewChangeSet \/ ExecuteChangeSet \/ ExecutePollUpdate

SpecDeploy == DeployInit /\ [][DeployNext]_vars

\* The last call that returned is a Plan whose change set ended as FAILED.
PlanEndedFailed ==
    /\ ret.fn = "Plan"
    /\ ret.cs.Status = "FAILED"

\* C5: a change set that ends FAILED with exactly the no-changes reason is
\* no failure: IsFailed is false, Plan returns no error and a plan without
\* change, and the node is planned with hasChange false.  With any other
\* reason IsFailed is true and Plan returns an error.
C5_NoChangeSuppression ==
    PlanEndedFailed =>
        IF ret.cs.StatusReason = NoChangesReason
        THEN /\ ~CsIsFailed(ret.cs)
             /\ ret.err = "nil"
             /\ ~ret.plan.HasChange
             /\ planned[ret.name]
             /\ ~hasChange[ret.name]
        ELSE /\ CsIsFailed(ret.cs)
             /\ ret.err # "nil"

\* C5 witness: the Plan of a stack other than the root returned for a
\* change set that failed for want of changes.
C5_Witness ==
    /\ PlanEndedFailed
    /\ ret.cs.StatusReason = NoChangesReason
    /\ ret.name # RootStack
    /\ ret.err = "nil"
    /\ planned[ret.name]

\* The flags of the referenced stack allowed the snapshot without the hook.
GateAtCall(h) == h.wasUpdated \/ (h.wasPlanned /\ ~h.hadChange)

Approved(p) ==
    \E c \in confirmed :
       /\ c.plan = p
       /\ flags.autoApprove \/ (flags.input /\ c.answer = "yes")

Refused(c) ==
    /\ ~flags.autoApprove
    /\ ~flags.input \/ c.answer \in {"no", "n", "EOF"}

\* C9: in deploy, init and parent verification ExecuteChangeSet is issued
\* only for a plan the confirmation step approved (the answer yes, or
\* auto-approve); for a plan it refused (the answer no or n, the input
\* closed, or no input without auto-approve) no ExecuteChangeSet is issued
\* and the command ends with an error.
C9_ExecuteAfterConfirmation ==
    /\ \A e \in executed : Approved(e.plan)
    /\ \A c \in confirmed :
          Refused(c) =>
              /\ \A e \in executed : e.plan # c.plan
              /\ callStack = <<>> => ret.err # "nil"

\* C9 witness: a run has ended in which one plan was approved with yes and
\* executed, and a later plan was refused with no.
C9_Witness ==
    /\ callStack = <<>>
    /\ ret.err # "nil"
    /\ \E e \in executed : [plan |-> e.plan, answer |-> "yes"] \in confirmed
    /\ \E c \in confirmed : c.answer = "no" /\ \A e \in executed : e.plan # c.plan

-----------------------------------------------------------------------------
(* SpecPlans: any sequence of StackManager.Plan(name) calls on one manager *)
(* whose verify hook returns nil without deploying: the hook of            *)
(* NewStackManager, and that of the handler without parent verification.   *)

\* The configurations of SpecPlans: the last stack calls the helper in any
\* way, the other stacks do not call it.
NoRefs == [read |-> TRUE, role |-> NoRef, params |-> <<>>]
PlansConfigs ==
    {c \in [Stacks -> Templates] : \A s \in Stacks : s # MaxStacks => c[s] = NoRefs}

PlansInit ==
    /\ tpl \in PlansConfigs
    /\ updated = [s \in Stacks |-> FALSE]
    /\ planned = [s \in Stacks |-> FALSE]
    /\ hasChange = [s \in Stacks |-> FALSE]
    /\ children = [s \in Stacks |-> {}]
    /\ bucket = ""
    /\ nextPlan = 1
    /\ ret = NoRet
    /\ executed = {}
    /\ confirmed = {}
    /\ helperDone = NoHelper
    /\ flags \in {f \in Flags : ~f.verifyParentStacks /\ ~f.autoApprove /\ ~f.input}
    /\ stackStatus = [s \in Stacks |-> StackStatusNotFound]
    /\ callStack = <<>>
    /\ NpIdle /\ ClIdle /\ GrIdle /\ WtIdle /\ NtIdle /\ S3Idle /\ TkIdle

\* The caller calls Plan(name) when no call is under way.
StartPlan ==
    /\ callStack = <<>>
    /\ \E name \in StackNames : callStack' = <<PlanFrame(name)>>
    /\ UNCHANGED <<ret, bucket, confirmed, notHandler, notSm>>

PlansNext ==
    \/ StartPlan \/ VerifyStack
    \/ PlanGetStack \/ PlanRender \/ HelperReturns \/ PlanCreateChangeSet \/ PlanWait

SpecPlans == PlansInit /\ [][PlansNext]_vars

\* A step in which the Plan on top returns.
PlanReturns ==
    /\ callStack # <<>>
    /\ Top.fn = "Plan"
    /\ callStack' = Pop
    /\ ret'.fn = "Plan"

\* C29: Plan(name) sets planned to true and hasChange to plan.HasChange on
\* its node only when the change set has reached a status that is neither
\* in progress nor a failure; when rendering, the creation of the change set
\* or the wait fails, Plan returns an error and no plan, and the planned,
\* hasChange and updated flags of the node are what they were when Plan was
\* called.
C29_PlanFlagsOnSuccess ==
    [][/\ (planned' # planned \/ hasChange' # hasChange) =>
            /\ PlanReturns
            /\ ret'.err = "nil"
            /\ ~CsIsInProgress(ret'.cs)
            /\ ~CsIsFailed(ret'.cs)
            /\ planned' = [planned EXCEPT ![Top.name] = TRUE]
            /\ hasChange' = [hasChange EXCEPT ![Top.name] = ret'.plan.HasChange]
       /\ (PlanReturns /\ ret'.err = "nil") =>
            /\ planned'[Top.name]
            /\ hasChange'[Top.name] = ret'.plan.HasChange
       /\ (PlanReturns /\ ret'.err # "nil") =>
            /\ "plan" \notin DOMAIN ret'
            /\ Top.name \in Stacks =>
                  <<planned'[Top.name], hasChange'[Top.name], updated'[Top.name]>>
                      = Top.entry]_vars

\* C29 witness: the Plan of a stack that was planned with changes before
\* returned the error of a change set that failed; the flags of the stack
\* are those of the earlier plan.
C29_Witness ==
    /\ ret.fn = "Plan"
    /\ ret.err = "cannot create change set"
    /\ ret.cs.Status = "FAILED"
    /\ ret.name \in Stacks
    /\ ret.name # RootStack
    /\ planned[ret.name]
    /\ hasChange[ret.name]
    /\ \E t \in Stacks : ret.name \in children[t]

\* C27: the helper returns the data of the target stack T only when T is
\* deployed: a helper call that returned a snapshot after the verify hook
\* returned did not return one with the status STACK_NOT_FOUND.
C27_HelperNeedsDeployed ==
    (helperDone # NoHelper /\ helperDone.verified = 1) => Exists(helperDone.status)

\* C26: init returns an error when the deployed bootstrap stack has no
\* Bucket output, and then sets no bucket (and syncs no files); when the
\* output is there the bucket of the manager is set to it when init returns;
\* and deploy, which runs init first, plans another stack only with the
\* bucket set.
C26_BootstrapBucket ==
    /\ ret.fn = "init" =>
          /\ ret.output = "absent" => (ret.err # "nil" /\ bucket = "")
          /\ ret.output = "present" => bucket = "bucket"
    /\ \A i \in 1..Len(callStack) :
          (/\ callStack[1].fn = "deploy"
           /\ callStack[i].fn = "Plan"
           /\ callStack[i].name # RootStack) => bucket # ""

-----------------------------------------------------------------------------
(* The helper calls of SpecDeploy that the helper refuses.                 *)

\* The stacks the next helper call of the Plan on top can name: the one of
\* RoleARN first, then those of the parameters and tags in any order.
NextTargets ==
    IF ~Top.roleDone THEN {tpl[Top.name].role}
    ELSE {tpl[Top.name].params[k] : k \in Top.todo}

\* The helper, called from stack s, refuses target t: t is s, or no stack.
Refuses(s, t) == t = s \/ t \notin Stacks

RefusalOf(s, t) == IF t = s THEN "self reference" ELSE "stack not found"

\* The Plan on top returns err and nothing but the call stack and the
\* returned value changes: no child set, no flag of a node, no change set
\* created in this Plan or executed, and no frame of the verify hook.
PlanFailsUntouched(errs) ==
    /\ callStack' = Pop
    /\ ret'.fn = "Plan"
    /\ ret'.name = Top.name
    /\ ret'.err \in errs
    /\ ret'.cs = NoChangeSet
    /\ Top.id = 0
    /\ UNCHANGED <<children, planned, hasChange, updated, nextPlan, executed,
                   helperDone, stackStatus>>

\* C25: a helper call from stack S that names S fails with the
\* self-reference error and one that names no configured stack with the
\* unknown-stack error; the call adds no edge to a child set, does not
\* invoke the verify hook, changes no flag of a node, and Plan(S) returns
\* the error without having created a change set.
C25_HelperRefusals ==
    [][(/\ Running("Plan", "render")
        /\ Top.name # RootStack
        /\ callStack' # callStack)
       => /\ (NextTargets # {} /\ \A t \in NextTargets : Refuses(Top.name, t))
               => PlanFailsUntouched({RefusalOf(Top.name, t) : t \in NextTargets})
          /\ (ret'.err \in {"self reference", "stack not found"} /\ callStack' = Pop)
               => /\ \E t \in NextTargets : /\ Refuses(Top.name, t)
                                            /\ ret'.err = RefusalOf(Top.name, t)
                  /\ PlanFailsUntouched({ret'.err})
          /\ (\A t \in NextTargets : ~Refuses(Top.name, t))
               => ~(callStack' = Pop
                    /\ ret'.err \in {"self reference", "stack not found"})]_vars

\* C25 witness: the Plan of a stack returned the unknown-stack error of a
\* helper call in a parameter, after the helper call of its RoleARN had
\* added the stack to the children of a configured stack.
C25_Witness ==
    /\ ret.fn = "Plan"
    /\ ret.name \in Stacks
    /\ ret.err = "stack not found"
    /\ tpl[ret.name].read
    /\ tpl[ret.name].role \in Stacks
    /\ ret.name \in children[tpl[ret.name].role]
    /\ \E k \in DOMAIN tpl[ret.name].params : tpl[ret.name].params[k] \notin Stacks

\* The stacks the inputs of stack s name: RoleARN, parameters and tags.
Refs(s) ==
    (IF tpl[s].role = NoRef THEN {} ELSE {tpl[s].role})
    \cup {tpl[s].params[k] : k \in DOMAIN tpl[s].params}

\* The verification of t has completed with success: t is planned, and if
\* its plan has changes, the plan was approved and executed and the stack
\* ended in a status with which execute returns no error.
VerifiedOk(t) ==
    /\ t \in Stacks
    /\ planned[t]
    /\ hasChange[t] =>
          /\ \E e \in executed : e.stack = t /\ Approved(e.plan)
          /\ ExecuteCallback(stackStatus[t]) = [retry |-> FALSE, err |-> "nil"]

\* C30: with parent verification enabled, when the change set of S is
\* created every stack that S's RoleARN, parameters and tags name has been
\* verified with success (planned, and executed after approval if its plan
\* has changes); and when the verify hook returns an error for one of them,
\* Plan(S) returns an error and has created no change set.
C30_ParentsVerifiedFirst ==
    /\ [](flags.verifyParentStacks =>
            /\ \A i \in 1..Len(callStack) :
                  (callStack[i].fn = "Plan" /\ callStack[i].pc = "wait") =>
                      \A t \in Refs(callStack[i].name) : VerifiedOk(t)
            /\ (ret.fn = "Plan" /\ ret.err = "nil") =>
                      \A t \in Refs(ret.name) : VerifiedOk(t))
    /\ [][(/\ flags.verifyParentStacks
           /\ Running("Plan", "verify")
           /\ ret.err # "nil"
           /\ callStack' # callStack)
          => /\ PlanFailsUntouched({"stack is not deployed"})
             /\ bucket' = bucket]_vars

\* C30 witness: with parent verification enabled the change set of a stack
\* is being created after a stack its inputs name was planned with changes,
\* approved and executed in the verify hook.
C30_Witness ==
    /\ flags.verifyParentStacks
    /\ Running("Plan", "wait")
    /\ Top.name # RootStack
    /\ \E t \in Refs(Top.name) :
          /\ t # RootStack
          /\ hasChange[t]
          /\ VerifiedOk(t)
    /\ \E i \in 1..Len(callStack) : callStack[i].fn = "deploy"

\* C31: the helper is not installed while the inputs of the root stack are
\* rendered: the root is in the child set of no stack, no Plan of the root
\* waits for the verify hook, and no helper call was made from the root.
C31_RootHasNoParents ==
    /\ \A t \in Stacks : RootStack \notin children[t]
    /\ \A i \in 1..Len(callStack) :
          (callStack[i].fn = "Plan" /\ callStack[i].name = RootStack) =>
              /\ callStack[i].pc # "verify"
              /\ callStack[i].call = NoHelper
    /\ helperDone # NoHelper => helperDone.child # RootStack

\* C31 witness: the Plan of the root, whose inputs call the helper for a
\* configured stack, returned the error of the undefined function.
C31_Witness ==
    /\ ret.fn = "Plan"
    /\ ret.name = RootStack
    /\ ret.err = "function stack not defined"
    /\ tpl[RootStack].read
    /\ Refs(RootStack) \cap Stacks # {}

-----------------------------------------------------------------------------
(* SpecWait: one Wait loop of any of the three kinds, with any config, on  *)
(* a closer that another goroutine may close at any time.  SpecWaitFair    *)
(* adds that the goroutine of the loop keeps running.                      *)

\* The config trackUpdates gives to Stack.Wait.
TrackConfig_EndOnly(fn) == [CloseOnEnd |-> TRUE, CloseOnError |-> FALSE, fn |-> fn]

TrackConfig(fn) == [CloseOnEnd |-> TRUE, CloseOnError |-> TRUE, fn |-> fn]

WaitInit ==
    /\ wKind \in WaitKinds
    /\ wConfig \in {c \in WaitConfigs :
                      /\ c.fn \in TrackFns => wKind = "stack" /\ c = TrackConfig(c.fn)}
    /\ wCloser \in {OpenCloser, CloserClose(OpenCloser, "closed outside")}
    /\ wRemote \in CASE wKind = "stack" -> {0}
                     [] wKind = "events" -> 0..(MaxEvents - 2)
                     [] wKind = "changeset" -> 0..MaxCsChanges
    /\ wPc = IF wKind = "stack" THEN "poll" ELSE "page"
    /\ wLoop = CASE wKind = "stack" -> StackLoop
                 [] wKind = "events" -> EventsLoop("new", 0)
                 [] wKind = "changeset" -> ChangeSetLoop
    /\ wLog = <<>>
    /\ wEmits = <<>>
    /\ wRet = "none"
    /\ wHist = [polls |-> IF wKind = "events" THEN 0 ELSE 1, late |-> 0,
                closeArg |-> "none", atInit |-> wRemote,
                startClosed |-> wCloser.closed]
    /\ NpIdle /\ SmIdle /\ ClIdle /\ GrIdle /\ NtIdle /\ S3Idle /\ TkIdle

WaitStep ==
    \/ StackPoll \/ EventsPage \/ EventsDeliver \/ ChangeSetPage
    \/ SelectTimer \/ SelectClosed \/ WaitEnd

WaitNext == WaitStep \/ AddStackEvents \/ CloseFromOutside

SpecWait == WaitInit /\ [][WaitNext]_vars

SpecWaitFair == SpecWait /\ WF_vars(WaitStep)

\* What the callback was given, in the order of its calls.
CallbackArgs == [i \in 1..Len(wLog) |-> wLog[i].arg]

\* C15: the events the callback of an event stream receives are in strictly
\* increasing position of the stack's history, so none comes twice, and
\* none of them was there when the stream was constructed.
C15_MonotonicEvents ==
    wKind = "events" =>
        /\ \A i, j \in 1..Len(wLog) : i < j => wLog[i].arg < wLog[j].arg
        /\ \A i \in 1..Len(wLog) : wLog[i].arg > wHist.atInit

\* A sequence without the repetitions of a value next to itself.
RECURSIVE Coalesce(_)
Coalesce(s) ==
    IF Len(s) <= 1 THEN s
    ELSE IF s[1] = s[2] THEN Coalesce(Tail(s))
    ELSE <<s[1]>> \o Coalesce(Tail(s))

\* C16: while Execute or Destroy tracks a stack, the statuses emitted are
\* the statuses of the snapshots received with every run of one status
\* taken once, the run of the last, terminal status included.
C16_StatusCoalescing ==
    wKind = "stack" /\ wConfig.fn \in TrackFns =>
        wEmits = Coalesce(CallbackArgs)

\* C17: a callback call that returns again = false without error, or that
\* returns an error, is the last call of the callback; when the loop has
\* ended after such a call, or after a failed remote read, Close was called
\* with nil if CloseOnEnd is set, respectively with the error if
\* CloseOnError is set.
C17_CloseOnEndAndError ==
    /\ \A i \in 1..Len(wLog) :
          ~wLog[i].again \/ wLog[i].err # "nil" => i = Len(wLog)
    /\ wPc = "done" /\ wKind # "none" /\ wRet # "none" =>
          /\ wRet # "nil" /\ wConfig.CloseOnError => wHist.closeArg = wRet
          /\ /\ wRet = "nil"
             /\ wLog # <<>>
             /\ ~wLog[Len(wLog)].again
             /\ wConfig.CloseOnEnd
             => wHist.closeArg = "nil"

\* C18: no turn of a loop starts once the closer is closed, so that a loop
\* given a closed closer makes one turn at most; the closer keeps the
\* error it was closed with; and a loop whose closer is closed ends.
C18_LoopEndsOnClose ==
    /\ [](wHist.late = 0)
    /\ [](wHist.startClosed => wHist.polls <= 1)
    /\ [][wCloser.closed => wCloser' = wCloser]_vars
    /\ (wCloser.closed ~> wPc = "done")

\* C18 witness: a loop that was in its second turn or later when its closer
\* was closed from outside has ended, its Wait has called Close(nil), and
\* the closer holds the error it was closed with.
C18_Witness ==
    /\ wPc = "done"
    /\ wHist.polls >= 2
    /\ wRet = "nil"
    /\ wLog # <<>> /\ wLog[Len(wLog)].again
    /\ wHist.closeArg = "nil"
    /\ wCloser = CloserClose(OpenCloser, "closed outside")

\* C19: every call of the change set callback gets the changes of all
\* pages, and the callback is called once in a poll.
C19_FullSnapshot ==
    wKind = "changeset" =>
        /\ \A i \in 1..Len(wLog) :
              wLog[i].arg = <<>> \/ wLog[i].arg = [k \in 1..wRemote |-> k]
        /\ \A i, j \in 1..Len(wLog) : i < j => wLog[i].poll < wLog[j].poll


\* C39: when the loop of an event stream has ended, se.last is the event the
\* callback was given last, also when that call of the callback ended the
\* loop with again = false or with an error.
C39_HighWaterMark ==
    wKind = "events" /\ wPc \in {"returned", "done"} /\ wLog # <<>> =>
        wLoop.last = wLog[Len(wLog)].arg


\* ChangeSet.Data() once update has returned: the data the loop held, or
\* the snapshot of a change set that is not found when it held none.
WaitData ==
    IF wLoop.has THEN [Status |-> wLoop.Status, Changes |-> wLoop.changes]
    ELSE [Status |-> ChangeSetStatusNotFound, Changes |-> <<>>]

\* The last DescribeChangeSet of the loop was answered with `not found`, and
\* the callback has been called with the data of the loop.
NotFoundDescribed == wKind = "changeset" /\ wLoop.has /\ ~wLoop.found

\* C36: after a DescribeChangeSet that the provider answered with `not
\* found`, the data given to the callback has Status CHANGE_SET_NOT_FOUND
\* and no changes, update has no error of its own, and the loop has ended
\* unless the callback asked for another poll or failed; after any other
\* describe error the loop has ended with that error.
C36_NotFoundSnapshot ==
    /\ NotFoundDescribed =>
          /\ wLoop.Status = ChangeSetStatusNotFound
          /\ wLoop.changes = <<>>
          /\ wRet \in {"none", "nil", wLog[Len(wLog)].err}
          /\ (wLog[Len(wLog)].err = "nil" /\ ~wLog[Len(wLog)].again) =>
                wPc \in {"returned", "done"} /\ wRet = "nil"
    /\ wRet = "cannot describe change set" => wPc \in {"returned", "done"}


\* The changes 1..n in the order of the change set.
FirstChanges(n) == [i \in 1..n |-> i]

\* C35: the timer after a callback that returned again = true starts the
\* next poll of a change set at the first page with no data held; when the
\* loop has ended, the changes of Data() are the pages the last poll read,
\* each change once and in order, with nothing of an earlier poll, and they
\* are all changes of the change set when update returned nil after a
\* described page and a callback that returned again = false and no error.
C35_AccumulatorReset ==
    /\ [][wKind = "changeset" /\ wPc = "select" /\ wPc' = "page" =>
             /\ wLog[Len(wLog)].again
             /\ wLoop'.token = 0 /\ ~wLoop'.has /\ wLoop'.changes = <<>>]_vars
    /\ [](wKind = "changeset" /\ wPc \in {"returned", "done"} =>
             /\ WaitData.Changes = FirstChanges(Len(WaitData.Changes))
             /\ \/ Len(WaitData.Changes) = wRemote
                \/ Len(WaitData.Changes) % PageSize = 0
             /\ (/\ wLoop.has /\ wLoop.found /\ wRet = "nil"
                 /\ wLog[Len(wLog)].err = "nil" /\ ~wLog[Len(wLog)].again) =>
                    Len(WaitData.Changes) = wRemote)

\* C35 witness: the callback returned again = true for the first page of a
\* change set of three changes, the next poll read both pages, and Wait has
\* ended with the three changes.
C35_Witness ==
    /\ wKind = "changeset"
    /\ wPc = "done"
    /\ wRemote = 3
    /\ Len(wLog) = 3
    /\ wLog[1].again /\ wLog[1].arg = <<1, 2>>
    /\ wLog[3].poll = 2
    /\ WaitData.Changes = <<1, 2, 3>>

-----------------------------------------------------------------------------
(* SpecNested: any sequence of nested stack events given to                *)
(* verifyNestedStackTracking of one stack, whose closer may be closed.     *)

NestedInit == NtIdle /\ NpIdle /\ SmIdle /\ ClIdle /\ GrIdle /\ WtIdle /\ S3Idle /\ TkIdle

NestedNext == VerifyNestedStackTracking \/ ParentClose

SpecNested == NestedInit /\ [][NestedNext]_vars

\* C20: after a completion event of a nested stack has been handled, the
\* map has no tracker for the nested stack, and the tracker it had is
\* closed.
C20_NoTrackerAfterComplete ==
    ntLast.handled /\ ntLast.complete =>
        /\ ~ntMap[ntLast.id].present
        /\ ntLast.had => \E g \in ntGone : g.id = ntLast.id /\ g.closer.closed

-----------------------------------------------------------------------------
(* SpecNestedPar: the streams of one tracked stack deliver nested stack    *)
(* events at once, each in its own goroutine, and the closer of the        *)
(* tracked stack may be closed.                                            *)

NestedStep(g) == NestedCallback(g) \/ NestedLock(g) \/ NestedUpdate(g)

NestedParNext == (\E g \in Streams : NestedStep(g)) \/ ParentClose

SpecNestedPar == NestedInit /\ [][NestedParNext]_vars

\* The handler of stream g ends in this step, for an event of nested stack id.
HandlerEnds(g, id) ==
    /\ ntProc[g].pc = "locked"
    /\ ntProc[g].id = id
    /\ ntProc'[g].pc = "idle"

RECURSIVE AncestorStreams(_, _)
AncestorStreams(t, n) ==
    IF n = 0 \/ t = OwnerStream THEN {}
    ELSE {ntChildOf[t]} \cup AncestorStreams(ntChildOf[t], n - 1)

\* C34: the handler of a completion event that closes the tracker of a
\* nested stack closes that closer and the closers below it only: the
\* closer of the tracked stack, the closers of the streams that ended
\* before, and the trackers of the nested stacks that are not below it stay
\* as they are, open when they were open.
C34_ChildCloseIsLocal ==
    [][\A g \in Streams : \A id \in NestedIds :
          HandlerEnds(g, id) /\ ntProc[g].complete /\ ntProc[g].ok =>
             /\ \E r \in ntGone' \ ntGone : r.id = id /\ r.closer.closed
             /\ ~ntMap'[id].present
             /\ ntParent' = ntParent
             /\ ntGone \subseteq ntGone'
             /\ \A t \in NestedIds \ {id} :
                   id \notin AncestorStreams(t, MaxNested) => ntMap'[t] = ntMap[t]
      ]_vars

\* C34 witness: the tracker of nested stack 1, which had a stream, was
\* closed by a completion event, while the closer of the tracked stack and
\* the tracker of nested stack 2, a child of it with a stream, are open.
C34_Witness ==
    /\ \E r \in ntGone : r.id = 1 /\ r.tracking /\ r.closer.closed
    /\ ~ntMap[1].present
    /\ ~ntParent.closed
    /\ ntMap[2].present /\ ntMap[2].tracking /\ ~ntMap[2].closer.closed
    /\ ntChildOf[2] = OwnerStream
    /\ ntProc[OwnerStream].pc = "idle"

-----------------------------------------------------------------------------
(* SpecGetPlan: StackManager.Plan on a provider that holds one change set   *)
(* for the stack, then StackManager.GetPlan with the ID of the plan, while *)
(* the provider stays as it is.                                            *)

\* The partitions of the provider; the ARN of a change set names the one
\* its region lies in.
Partitions == {"aws", "aws-cn"}

\* The id CreateChangeSet returns in a partition, for the region and the
\* account of the session.
ProviderChangeSetID(partition) ==
    <<"arn", partition, "cloudformation", "region", "account", <<"changeSet", "cs", "uuid">> >>

\* The ARN GetPlan builds from the plan ID.
GetPlanChangeSetID(planID) ==
    <<"arn", "aws", "cloudformation", "region", "account", <<"changeSet">> \o planID>>

\* ChangeSet.update with a callback that ends the loop: the changes of the
\* page at the token, and of the pages after it while there is a NextToken.
RECURSIVE CollectChanges(_, _)
CollectChanges(changes, start) ==
    LET page == ChangesPageAt(Len(changes), start)
        got == [i \in 1..Len(page) |-> changes[page[i]]]
    IN IF HasNextPage(Len(changes), start)
       THEN got \o CollectChanges(changes, start + PageSize)
       ELSE got

\* The data of a ChangeSet after update: what DescribeChangeSet answers for
\* the id, or newChangeSetData(nil) when the provider does not find it.
ChangeSetDataOf(remote, id) ==
    IF id = ProviderChangeSetID(remote.partition)
    THEN [ID |-> id, Changes |-> CollectChanges(remote.Changes, 0),
          Parameters |-> remote.Parameters]
    ELSE [ID |-> id, Changes |-> <<>>, Parameters |-> <<>>]

GetPlanInputs ==
    [partition : Partitions,
     Changes : UNION {[1..n -> {DirectChange, NestedChange}] : n \in 0..(MaxChanges + 1)},
     Parameters : ParamMaps,
     stack : [Parameters : ParamMaps],
     ignoreNestedUpdates : BOOLEAN]

GetPlanInit ==
    /\ npInput \in GetPlanInputs /\ npPlan = NoPlan
    /\ SmIdle /\ ClIdle /\ GrIdle /\ WtIdle /\ NtIdle /\ S3Idle /\ TkIdle

\* StackManager.Plan from CreateChangeSet on, with a change set that
\* completes.
CallPlan ==
    /\ npPlan = NoPlan
    /\ npPlan' = [by |-> "Plan"] @@
                  newPlan(ChangeSetDataOf(npInput, ProviderChangeSetID(npInput.partition)),
                          npInput.stack, npInput.ignoreNestedUpdates)
    /\ UNCHANGED <<npInput, notNp>>

\* StackManager.GetPlan(name, plan.ID) for the plan that Plan returned.
CallGetPlan ==
    /\ npPlan # NoPlan
    /\ npPlan.by = "Plan"
    /\ npPlan' = [by |-> "GetPlan", first |-> npPlan,
                  asked |-> GetPlanChangeSetID(npPlan.ID),
                  second |-> newPlan(ChangeSetDataOf(npInput, GetPlanChangeSetID(npPlan.ID)),
                                     npInput.stack, npInput.ignoreNestedUpdates)]
    /\ UNCHANGED <<npInput, notNp>>

GetPlanNext == CallPlan \/ CallGetPlan

SpecGetPlan == GetPlanInit /\ [][GetPlanNext]_vars

\* C22: the plan of GetPlan(name, plan.ID) has the ID, the Parameters and
\* the ordered changes of the plan Plan returned, and the identifier GetPlan
\* asks the provider for is the identifier of the change set.
C22_PlanRoundTrip ==
    npPlan # NoPlan /\ npPlan.by = "GetPlan" =>
        /\ npPlan.asked = ProviderChangeSetID(npInput.partition)
        /\ npPlan.second.err = "nil"
        /\ npPlan.second.ID = npPlan.first.ID
        /\ npPlan.second.Parameters = npPlan.first.Parameters
        /\ npPlan.second.Changes = npPlan.first.Changes

-----------------------------------------------------------------------------
(* SpecPlanCmd: the command `plan {stack-name}` and then, for the plan it  *)
(* produced, `plan {stack-name} {plan-id}`, each up to the exit of the     *)
(* process, on a provider that holds one change set for the stack.         *)

NilError == [kind |-> "nil"]
PlainError(msg) == [kind |-> "error", msg |-> msg]

\* &errorCode{nil, code}
ErrorCode(code) == [kind |-> "errorCode", err |-> NilError, code |-> code]

\* errors.Cause: the cause an annotated error carries, else the error.
Cause(err) == IF err.kind = "annotated" THEN err.cause ELSE err

\* errors.Annotatef(err, ...): nil for nil, else an *errors.Err that keeps
\* the cause of err.
Annotatef(err) ==
    IF err = NilError THEN NilError ELSE [kind |-> "annotated", cause |-> Cause(err)]

\* The exit code, with the error taken as rootCmd.Execute returned it.
ExitCode_NoCause(err) ==
    IF err = NilError THEN 0
    ELSE IF err.kind = "errorCode" THEN err.code ELSE 1

\* Execute of cmd/root.go: the exit code of the process for the error that
\* rootCmd.Execute returned; without an error the process ends with 0.
ExitCode(err) ==
    IF err = NilError THEN 0
    ELSE IF Cause(err).kind = "errorCode" THEN Cause(err).code ELSE 1

\* The error stackCmdHandler.plan and planStatus return for what Plan or
\* GetPlan returned: the error annotated, or an errorCode with 2 for a plan
\* that has changes and 0 for one that has none.
PlanHandlerError(plan) ==
    IF plan.err # "nil" THEN Annotatef(PlainError(plan.err))
    ELSE ErrorCode(IF plan.HasChange THEN 2 ELSE 0)

\* RunE of planCmd and cmdResultHandler annotate what the handler returned.
PlanCmdExit(handlerErr) == ExitCode(Annotatef(Annotatef(handlerErr)))

PlanCmdFailures == {"cannot get stack", "cannot initialize", "cannot create change set"}

\* `clon plan name`: verifyStackName, init, StackManager.Plan, each of which
\* may fail, and the exit of the process.
CmdPlan ==
    /\ npPlan = NoPlan
    /\ \E fails \in PlanCmdFailures \cup {"none"} :
         LET plan == IF fails # "none" THEN [err |-> fails]
                     ELSE newPlan(ChangeSetDataOf(npInput,
                                                  ProviderChangeSetID(npInput.partition)),
                                  npInput.stack, npInput.ignoreNestedUpdates)
         IN npPlan' = [by |-> "plan", plan |-> plan,
                       exit |-> PlanCmdExit(PlanHandlerError(plan))]
    /\ UNCHANGED <<npInput, notNp>>

\* `clon plan name id` with the ID of the plan the first command produced:
\* StackManager.GetPlan, which may fail, and the exit of the process.
CmdPlanStatus ==
    /\ npPlan # NoPlan
    /\ npPlan.by = "plan"
    /\ npPlan.plan.err = "nil"
    /\ \E fails \in {"cannot describe change set", "none"} :
         LET plan == IF fails # "none" THEN [err |-> fails]
                     ELSE newPlan(ChangeSetDataOf(npInput,
                                                  GetPlanChangeSetID(npPlan.plan.ID)),
                                  npInput.stack, npInput.ignoreNestedUpdates)
         IN npPlan' = [by |-> "planStatus", prior |-> npPlan.plan, plan |-> plan,
                       exit |-> PlanCmdExit(PlanHandlerError(plan))]
    /\ UNCHANGED <<npInput, notNp>>

PlanCmdNext == CmdPlan \/ CmdPlanStatus

SpecPlanCmd == GetPlanInit /\ [][PlanCmdNext]_vars

\* C28: the plan command, for a new plan and for a plan given by id, exits
\* with 2 exactly if the plan it obtained has HasChange, with 0 exactly if
\* it obtained a plan that has no change, and with 1 exactly if planning
\* returned an error.
C28_PlanExitCode ==
    (npPlan # NoPlan /\ npPlan.by \in {"plan", "planStatus"}) =>
        /\ npPlan.exit = 2 <=> (npPlan.plan.err = "nil" /\ npPlan.plan.HasChange)
        /\ npPlan.exit = 0 <=> (npPlan.plan.err = "nil" /\ ~npPlan.plan.HasChange)
        /\ npPlan.exit = 1 <=> npPlan.plan.err # "nil"

\* C28 witness: the command for a plan given by id exited with 2 for a plan
\* with changes, after the command that produced the plan.
C28_Witness ==
    /\ npPlan # NoPlan
    /\ npPlan.by = "planStatus"
    /\ npPlan.prior.HasChange
    /\ npPlan.plan.err = "nil"
    /\ npPlan.plan.HasChange
    /\ npPlan.exit = 2

-----------------------------------------------------------------------------
(* SpecDestroy: one call of StackManager.Destroy(name) on a manager whose   *)
(* snapshots say that the stacks exist or do not, with a provider that     *)
(* answers as it likes.                                                    *)

DestroyFrame(name) == [fn |-> "Destroy", name |-> name, pc |-> "getStack"]

\* StackManager.Destroy returns the error and no snapshot, or the snapshot.
DestroyReturns(name, err, status) ==
    Return([fn |-> "Destroy", name |-> name, err |-> err,
            status |-> IF err = "nil" THEN status ELSE <<>>])

\* StackManager.Destroy up to stack.destroy: getStack.
DestroyGetStack ==
    /\ Running("Destroy", "getStack")
    /\ IF Top.name \notin Stacks
       THEN DestroyReturns(Top.name, "cannot get stack", <<>>)
       ELSE /\ callStack' = SetTop([Top EXCEPT !.pc = "DeleteStack"])
            /\ UNCHANGED ret
    /\ UNCHANGED <<updated, stackStatus, executed, notExecute, notSm>>

\* Stack.Destroy: the provider's DeleteStack, which may fail.
DestroyDeleteStack ==
    /\ Running("Destroy", "DeleteStack")
    /\ \E ok \in BOOLEAN :
          IF ok
          THEN /\ callStack' = SetTop([Top EXCEPT !.pc = "poll"])
               /\ UNCHANGED ret
          ELSE DestroyReturns(Top.name, "cannot destroy stack", <<>>)
    /\ UNCHANGED <<updated, stackStatus, executed, notExecute, notSm>>

\* One cycle of Stack.update under trackUpdates with the callback of
\* stack.destroy; stack.destroy returns what the closer holds, and
\* StackManager.Destroy the snapshot of the last read.
DestroyPoll ==
    /\ Running("Destroy", "poll")
    /\ \/ /\ DestroyReturns(Top.name, "cannot read stack", <<>>)
          /\ UNCHANGED stackStatus
       \/ \E status \in StackStatuses :
             /\ stackStatus' = [stackStatus EXCEPT ![Top.name] = status]
             /\ IF DestroyCallback(status).retry
                THEN UNCHANGED <<callStack, ret>>
                ELSE DestroyReturns(Top.name, DestroyCallback(status).err, status)
    /\ UNCHANGED <<updated, executed, notExecute, notSm>>

DestroyInit ==
    /\ SmFresh
    /\ flags = NoFlags
    /\ stackStatus \in [Stacks -> {StackStatusNotFound, <<"UPDATE", "COMPLETE">>}]
    /\ callStack \in {<<DestroyFrame(name)>> : name \in StackNames}
    /\ NpIdle /\ ClIdle /\ GrIdle /\ WtIdle /\ NtIdle /\ S3Idle /\ TkIdle

DestroyNext == DestroyGetStack \/ DestroyDeleteStack \/ DestroyPoll

SpecDestroy == DestroyInit /\ [][DestroyNext]_vars

\* The errors of Destroy that are failures of the provider's calls.
ProviderFailed(err) == err \in {"cannot destroy stack", "cannot read stack"}

\* C23: a read that finds the stack absent ends Destroy without error, with
\* a snapshot of status STACK_NOT_FOUND; after a read of a status that ends
\* in _IN_PROGRESS Destroy polls again; a read of any other status ends it
\* with an error and without a snapshot; and Destroy returns no error in any
\* other way.
C23_DestroyUntilAbsent ==
    /\ [](callStack = <<>> /\ ret.fn = "Destroy" /\ ret.err = "nil" =>
             /\ ret.status = StackStatusNotFound
             /\ stackStatus[ret.name] = StackStatusNotFound)
    /\ [][Running("Destroy", "poll") =>
             LET read == stackStatus'[Top.name] IN
             IF callStack' # <<>>
             THEN callStack' = callStack /\ IsInProgress(read)
             ELSE \/ ProviderFailed(ret'.err)
                  \/ /\ ~IsInProgress(read)
                     /\ ret'.err = (IF Exists(read) THEN "invalid status" ELSE "nil")
         ]_vars

\* C23 witness: Destroy of a stack of the configuration has returned the
\* snapshot STACK_NOT_FOUND without error.
C23_Witness ==
    /\ callStack = <<>>
    /\ ret.fn = "Destroy"
    /\ ret.err = "nil"
    /\ ret.status = StackStatusNotFound
    /\ ret.name # RootStack

-----------------------------------------------------------------------------

(* SpecWrite: any sequence of s3file.Write calls on one bucket that holds  *)
(* any objects beforehand, with no other writer in between.                *)

WriteInit ==
    /\ NpIdle /\ SmIdle /\ ClIdle /\ GrIdle /\ WtIdle /\ NtIdle /\ TkIdle
    /\ s3Objects \in [ObjectKeys -> InitialObjects]
    /\ s3NextVersion = 1
    /\ s3Log = [prev |-> NoWrite, last |-> NoWrite]

WriteNext ==
    \E c \in WriteConfigs, fails \in Failures : Write(c, fails)

SpecWrite == WriteInit /\ [][WriteNext]_vars

\* Head reported an object whose ETag is the quoted MD5 of the content and
\* whose content type is that of the Write.
HeadReportsSame(w) ==
    /\ w.head = "found"
    /\ w.seen.etag = <<"\"", "md5", w.content, "\"">>
    /\ w.seen.contentType = w.contentType

\* C24: a Write whose content MD5 and content type both equal what Head
\* reports issues no upload and returns the existing version id; and of two
\* successive successful Writes of the same bytes with the same content type
\* to the same key, the second returns the version id of the first and
\* issues no upload.
C24_WriteIdempotent ==
    LET p == s3Log.prev
        w == s3Log.last
    IN  /\ (w.called /\ HeadReportsSame(w)) =>
            /\ w.err = "nil"
            /\ w.uploads = 0
            /\ w.versionId = w.seen.versionId
        /\ (/\ p.called /\ w.called
            /\ p.err = "nil" /\ w.err = "nil"
            /\ p.key = w.key /\ p.content = w.content
            /\ p.contentType = w.contentType) =>
            /\ w.versionId = p.versionId
            /\ w.uploads = 0

\* C24 witness: a Write uploaded an object as a new version, and the next
\* Write of the same bytes, content type and key returned that version
\* without uploading.
C24_Witness ==
    /\ s3Log.prev.called /\ s3Log.last.called
    /\ s3Log.prev.err = "nil" /\ s3Log.last.err = "nil"
    /\ s3Log.prev.uploads = 1
    /\ s3Log.prev.key = s3Log.last.key
    /\ s3Log.prev.content = s3Log.last.content
    /\ s3Log.prev.contentType = s3Log.last.contentType
    /\ s3Log.last.uploads = 0
    /\ s3Log.last.versionId = s3Log.prev.versionId
    /\ s3Log.last.versionId >= 1

-----------------------------------------------------------------------------
(* SpecConfirm: one call of askForConfirmation, with any flags, on any     *)
(* input of a few lines that is closed after them.                         *)

MaxLines == 3

Lines == Answers \ {"EOF"}
Inputs == UNION {[1..n -> Lines] : n \in 0..MaxLines}

AskFrame(input) ==
    [fn |-> "askForConfirmation", pc |-> "start", input |-> input, read |-> <<>>]

ConfirmInit ==
    /\ SmFresh
    /\ flags \in Flags
    /\ stackStatus = [s \in Stacks |-> StackStatusNotFound]
    /\ callStack \in {<<AskFrame(input)>> : input \in Inputs}
    /\ NpIdle /\ ClIdle /\ GrIdle /\ WtIdle /\ NtIdle /\ S3Idle /\ TkIdle

AskReturns(result, read) ==
    Return([fn |-> "askForConfirmation", read |-> read,
            err |-> IF result = "approved" THEN "nil" ELSE result])

\* The two tests of the flags before the loop.
AskFlags ==
    /\ Running("askForConfirmation", "start")
    /\ IF AskForConfirmation(flags, "") = "again"
       THEN /\ callStack' = SetTop([Top EXCEPT !.pc = "read"])
            /\ UNCHANGED ret
       ELSE AskReturns(AskForConfirmation(flags, ""), <<>>)
    /\ UNCHANGED <<bucket, confirmed, notHandler, notSm>>

\* One round of the loop: the prompt, Scanln of the next line (EOF when the
\* input is used up), and the tests of the answer.
AskRead ==
    /\ Running("askForConfirmation", "read")
    /\ LET answer == IF Top.input = <<>> THEN "EOF" ELSE Head(Top.input)
           rest == IF Top.input = <<>> THEN <<>> ELSE Tail(Top.input)
           read == Append(Top.read, answer)
           result == AskForConfirmation(flags, answer)
       IN IF result = "again"
          THEN /\ callStack' = SetTop([Top EXCEPT !.input = rest, !.read = read])
               /\ UNCHANGED ret
          ELSE AskReturns(result, read)
    /\ UNCHANGED <<bucket, confirmed, notHandler, notSm>>

ConfirmNext == AskFlags \/ AskRead

SpecConfirm == ConfirmInit /\ [][ConfirmNext]_vars

\* The answers that were read before the last one are none of yes, no, n,
\* and none is the closed input.
OnlyReprompts(read) ==
    \A i \in 1..(Len(read) - 1) : read[i] \notin {"yes", "no", "n", "EOF"}

\* C32: the confirmation approves at once with auto-approve and fails at
\* once without input; otherwise it reads answers until a decisive one: yes
\* approves, no or n ends it with an error, an empty line prompts again, the
\* closed input ends it with an error.  It approves on no answer but yes.
C32_ConfirmationDecides ==
    /\ Running("askForConfirmation", "read") =>
          /\ ~flags.autoApprove /\ flags.input
          /\ \A i \in 1..Len(Top.read) : Top.read[i] \notin {"yes", "no", "n", "EOF"}
    /\ ret.fn = "askForConfirmation" =>
          LET last == ret.read[Len(ret.read)] IN
          IF flags.autoApprove THEN ret.err = "nil" /\ ret.read = <<>>
          ELSE IF ~flags.input THEN ret.err # "nil" /\ ret.read = <<>>
          ELSE /\ ret.read # <<>>
               /\ OnlyReprompts(ret.read)
               /\ last # ""
               /\ ret.err = "nil" <=> last = "yes"
               /\ last \in {"no", "n", "EOF"} => ret.err # "nil"

\* C32 witness: with input and without auto-approve the confirmation
\* approved on yes after an empty line and the answer y.
C32_Witness ==
    /\ ret.fn = "askForConfirmation"
    /\ ~flags.autoApprove
    /\ flags.input
    /\ ret.err = "nil"
    /\ ret.read = <<"", "y", "yes">>


-----------------------------------------------------------------------------
(* SpecTrack: one trackUpdates of stack.execute or stack.destroy.  The     *)
(* goroutine of Stack.Wait polls the stack; the event stream of the stack  *)
(* and the streams of its nested stacks run beside it, on the closer cl of *)
(* trackUpdates or on children of it; the caller waits in cl.Wait().  The  *)
(* closer of the loop and the closer of the trackers are that one closer.  *)
(* The handlers of the streams run one at a time here.  SpecTrackFair adds *)
(* that every goroutine keeps running.                                     *)

\* How often a nested stack gets a tracker in SpecTrack.
MaxTracked == 1

\* The statuses the provider answers with in SpecTrack.
TrackStatuses ==
    {<<"UPDATE", "IN", "PROGRESS">>, <<"UPDATE", "COMPLETE">>, StackStatusNotFound}

\* A stream is named by its stack and the number of its tracker.
OwnerKey == <<OwnerStream, 0>>
StreamKeys == {OwnerKey} \cup (NestedIds \X (1..MaxTracked))

\* The config trackStackEvents gives to StackEvents.Wait: the callback and
\* the closer, and no more.
StreamConfig_CloseOnError == [CloseOnEnd |-> FALSE, CloseOnError |-> TRUE]

StreamConfig == [CloseOnEnd |-> FALSE, CloseOnError |-> FALSE]

\* The goroutine of the stream runs; it is inside its callback.
Alive(k) == k[2] \in StartedStreams(k[1]) /\ k \notin tkEnded
InHandler(k) == ntProc[k[1]].pc # "idle" /\ ntProc[k[1]].inc = k[2]

\* The closer of stream k is the one the map holds for its stack, or cl.
CurrentCloser(k) ==
    k = OwnerKey \/ (k[1] \in NestedIds /\ ntMap[k[1]].present /\ ntAdds[k[1]] = k[2])

\* Closer.Close(err) on the closer of the stream of g, as the map sees it:
\* the trackers at and below it are closed with err if they were open.
ClosedTrackers(g, err) ==
    LET under == TrackersUnder({g}, MaxNested) IN
    [t \in NestedIds |->
        IF t \in under /\ ntMap[t].present
        THEN [ntMap[t] EXCEPT !.closer = CloserClose(@, err)]
        ELSE ntMap[t]]

TrackInit ==
    /\ wKind = "stack"
    /\ wConfig \in {TrackConfig(fn) : fn \in TrackFns}
    /\ wCloser = OpenCloser
    /\ wRemote = 0
    /\ wPc = "poll"
    /\ wLoop = StackLoop
    /\ wLog = <<>>
    /\ wEmits = <<>>
    /\ wRet = "none"
    /\ wHist = [polls |-> 1, late |-> 0, closeArg |-> "none", atInit |-> 0,
                startClosed |-> FALSE]
    /\ NtIdle
    /\ tkEnded \in {{}, {OwnerKey}}
    /\ tkFailed = tkEnded
    /\ tkRet = "none"
    /\ NpIdle /\ SmIdle /\ ClIdle /\ GrIdle /\ S3Idle

\* One turn of Stack.update with the callback of trackUpdates.
TrackPoll ==
    /\ StackPoll
    /\ wLog' # wLog => wLog'[Len(wLog')].arg \in TrackStatuses

\* The goroutine of Stack.Wait after update: Close(err) or Close(nil) on cl,
\* which closes the trackers below cl before it returns.
TrackWaitEnd ==
    /\ wPc = "returned"
    /\ wPc' = "done"
    /\ LET onError == wRet # "nil" /\ wConfig.CloseOnError
           arg == IF onError THEN wRet ELSE "nil" IN
       IF onError \/ wConfig.CloseOnEnd
       THEN /\ wCloser' = CloserClose(wCloser, arg)
            /\ wHist' = [wHist EXCEPT !.closeArg = arg]
            /\ ntParent' = CloserClose(ntParent, arg)
            /\ ntMap' = ClosedTrackers(OwnerStream, arg)
       ELSE UNCHANGED <<wCloser, wHist, ntParent, ntMap>>
    /\ UNCHANGED <<wKind, wConfig, wLoop, wRemote, wLog, wEmits, wRet,
                   ntLast, ntGone, ntSteps, tkVars, notTk>>

\* A stream gives an event of type AWS::CloudFormation::Stack to its
\* callback, and the callback runs verifyNestedStackTracking.
TrackHandler(g) ==
    /\ NestedStep(g)
    /\ ntProc[g].pc = "idle" =>
          /\ \A h \in Streams : ntProc[h].pc = "idle"
          /\ \E inc \in StartedStreams(g) : Alive(<<g, inc>>)
          /\ ntProc'[g].pc = "lock" =>
                /\ Alive(<<g, ntProc'[g].inc>>)
                /\ \/ ntAdds[ntProc'[g].id] < MaxTracked
                   \/ ntMap[ntProc'[g].id].present

\* The goroutine of StackEvents.Wait after update returned err: the closer
\* of the stream is closed as the config says.
StreamReturns(k, err) ==
    /\ tkEnded' = tkEnded \cup {k}
    /\ tkFailed' = IF err # "nil" THEN tkFailed \cup {k} ELSE tkFailed
    /\ LET onError == err # "nil" /\ StreamConfig.CloseOnError
           arg == IF onError THEN err ELSE "nil" IN
       IF (onError \/ StreamConfig.CloseOnEnd) /\ CurrentCloser(k)
       THEN /\ ntMap' = ClosedTrackers(k[1], arg)
            /\ IF k = OwnerKey
               THEN /\ wCloser' = CloserClose(wCloser, arg)
                    /\ ntParent' = CloserClose(ntParent, arg)
               ELSE UNCHANGED <<wCloser, ntParent>>
       ELSE UNCHANGED <<wCloser, ntParent, ntMap>>
    /\ UNCHANGED <<wKind, wConfig, wPc, wLoop, wRemote, wLog, wEmits, wRet, wHist,
                   ntLast, ntGone, ntSteps, tkRet, notTk>>

\* getEvents fails in a poll of the stream: update returns the error.
StreamPollFails(k) ==
    /\ Alive(k)
    /\ ~InHandler(k)
    /\ StreamReturns(k, "cannot read events")

\* The select of the stream finds its closer closed: update returns nil.
StreamSelectClosed(k) ==
    /\ Alive(k)
    /\ ~InHandler(k)
    /\ SelectReturns(StreamCloser(k[1], k[2]))
    /\ StreamReturns(k, "nil")

\* cl.Wait() of stack.execute and stack.destroy returns the error cl holds.
TrackWaitReturn ==
    /\ tkRet = "none"
    /\ wCloser.closed
    /\ tkRet' = wCloser.err
    /\ UNCHANGED <<tkEnded, tkFailed, wtVars, ntVars, notTk>>

StreamStep == \E k \in StreamKeys : StreamPollFails(k) \/ StreamSelectClosed(k)

TrackNext ==
    \/ TrackPoll \/ SelectTimer \/ TrackWaitEnd
    \/ \E g \in Streams : TrackHandler(g)
    \/ StreamStep
    \/ TrackWaitReturn

SpecTrack == TrackInit /\ [][TrackNext]_vars

\* Every goroutine keeps running: the poller, the caller, the handlers once
\* entered, and every stream, whose polls hold finitely many events, gets to
\* its select.
SpecTrackFair ==
    /\ SpecTrack
    /\ WF_vars(TrackPoll \/ SelectTimer \/ TrackWaitEnd)
    /\ WF_vars(TrackWaitReturn)
    /\ WF_vars(\E g \in Streams : NestedLock(g) \/ NestedUpdate(g))
    /\ \A k \in StreamKeys : SF_vars(StreamSelectClosed(k))


\* What the last call of the poller's callback returned as error, and that
\* it is one.
CallbackErr == IF wLog = <<>> THEN "nil" ELSE wLog[Len(wLog)].err
CallbackFailed == CallbackErr # "nil"

\* Every stream that was started has ended.
StreamsOver == \A k \in StreamKeys : k[2] \in StartedStreams(k[1]) => k \in tkEnded

\* C33: once the callback of the stack poller has returned an error, cl is
\* closed with no other error and the operation returns no other error,
\* and in the end cl is closed with it, the stream of the stack and every
\* stream of a nested stack has ended, and the operation has returned it.
C33_PollerErrorEndsAll ==
    /\ [](CallbackFailed =>
            /\ wCloser.closed => wCloser.err = CallbackErr
            /\ tkRet # "none" => tkRet = CallbackErr)
    /\ (CallbackFailed ~>
            /\ wCloser.closed /\ wCloser.err = CallbackErr
            /\ StreamsOver
            /\ \A t \in NestedIds : ntMap[t].present => ntMap[t].closer.closed
            /\ tkRet = CallbackErr)

\* C33 witness: the callback failed after a poll that went on; the stream
\* of the stack and the streams of two nested stacks, one of them tracked
\* below the other, were running when cl was closed with the error and have
\* ended since, and the operation has returned the error.
C33_Witness ==
    /\ CallbackFailed
    /\ Len(wLog) > 1
    /\ tkRet = CallbackErr
    /\ tkFailed = {}
    /\ tkEnded = {OwnerKey, <<1, 1>>, <<2, 1>>}
    /\ ntChildOf[2] = 1
    /\ \A t \in NestedIds :
          /\ ntMap[t].present
          /\ ntMap[t].closer = [closed |-> TRUE, err |-> CallbackErr]


\* C38: a step in which an event stream ends with a read error leaves cl,
\* the trackers and the result of the operation as they are; cl is closed
\* by the goroutine of the stack poller and by no other step; and what the
\* operation returns is what the update of the stack poller returned.
C38_StreamFailureIsSilent ==
    /\ [][tkFailed' # tkFailed => UNCHANGED <<wCloser, ntParent, ntMap, tkRet>>]_vars
    /\ [][wCloser' # wCloser => wPc = "returned" /\ wPc' = "done"]_vars
    /\ [](tkRet # "none" => wPc = "done" /\ tkRet = wRet)

\* C38 witness: the first listing of the stack's events failed, a later
\* poll of the stream of nested stack 1 failed, the first listing for
\* nested stack 2 failed, so that it has a tracker without a stream; the
\* poller has since seen the stack complete and the operation has returned
\* nil.
C38_Witness ==
    /\ tkFailed = {OwnerKey, <<1, 1>>}
    /\ ntMap[1].present /\ ntMap[1].tracking
    /\ ntMap[2].present /\ ~ntMap[2].tracking
    /\ wConfig.fn = "execute"
    /\ Len(wLog) > 1
    /\ tkRet = "nil"

=============================================================================
